---- MODULE Spec2Model ----
(***************************************************************************)
(* ZeroVeil gateway: the request admission pipeline (app.py), the tenant   *)
(* registry with its sliding rate windows (tenants.py), policy loading     *)
(* (policy.py), the PII gate (pii.py) and the audit logger (audit.py).     *)
(*                                                                         *)
(* Spec      the gateway used by one request at a time: create_app, then   *)
(*           chat_completions calls and clock ticks.                       *)
(* SpecConc  several worker threads inside check_rate_limit / record_usage *)
(*           of one shared registry, one step per interpreter-atomic       *)
(*           operation.                                                    *)
(* SpecAudit several worker threads inside AuditLogger.log on one path,    *)
(*           one step per file-system call.                                *)
(* SpecRotate   one writer in AuditLogger.log, rotation and retention.     *)
(* SpecRegistry one caller of TenantRegistry, one call at a time.          *)
(* SpecConfig   TenantConfig(...) and Policy.from_dict on every input.     *)
(* SpecPii      the PII gate and its configuration, called directly.       *)
(* SpecAuth     TenantRegistry.authenticate with shared key hashes.        *)
(* SpecAdmit    the success path of chat_completions, step by step.        *)
(* SpecAuditFail  SpecAdmit with an audit sink whose writes may raise.     *)
(* SpecUsage    the rate calls of one request, time passing between them.  *)
(* SpecIsolation  the registry calls of two limited tenants, interleaved.  *)
(***************************************************************************)
EXTENDS Integers, Sequences, FiniteSets, TLC

VARIABLES
    phase,              \* "boot" | "serving" | "failed" (create_app raised)
    policyFile,         \* content of ZEROVEIL_POLICY_PATH
    tenantsFile,        \* content of ZEROVEIL_TENANTS_PATH
    legacy_api_key,     \* ZEROVEIL_API_KEY ("" when unset)
    policy,             \* create_app: policy
    registry,           \* create_app: registry ([loaded, tenants])
    clock,              \* TenantRegistry._now()
    ticks,              \* number of clock advances so far
    requests_by_tenant, \* TenantRegistry._requests_by_tenant
    tokens_by_tenant,   \* TenantRegistry._tokens_by_tenant
    allowed_calls,      \* history: timestamps of check_rate_limit calls that returned True
    last,               \* the request handled last and what the gateway answered
    thr,                \* SpecConc: per-thread position and locals
    files,              \* SpecAudit: directory, file name index -> inode (0 = absent)
    inodes,             \* SpecAudit: inode -> lines
    athr,               \* SpecAudit: per-thread position and locals
    logged,             \* SpecAudit: number of events handed to log so far
    stdout,             \* the lines AuditLogger.log has printed to standard output
    _retention,         \* AuditLogger._retention
    recorded            \* SpecRegistry: history of the record_usage calls, per tenant

vars == << phase, policyFile, tenantsFile, legacy_api_key, policy, registry,
           clock, ticks, requests_by_tenant, tokens_by_tenant, allowed_calls,
           last, thr, files, inodes, athr, logged, stdout, _retention, recorded >>

gatewayVars == << phase, policyFile, tenantsFile, legacy_api_key, policy, registry,
                  clock, ticks, requests_by_tenant, tokens_by_tenant,
                  allowed_calls, last >>
configVars == << phase, policyFile, tenantsFile, legacy_api_key, policy, registry >>
concVars == << thr >>
auditVars == << files, inodes, athr, logged, stdout, _retention >>
histVars == << recorded >>

(***************************************************************************)
(* Bounds of the model.                                                    *)
(***************************************************************************)
TickStep == 30
MaxTicks == 2
MaxAllowed == 3
NThreads == 2
MaxConcCalls == 2
RotateAtLines == 2
RotateCount == 2
MaxEvents == 5
MaxAgeDays == 1
MaxDays == 2
MaxRecorded == 2
MaxRegTicks == 2
TpdLimit == 3

(***************************************************************************)
(* Program constants.                                                      *)
(***************************************************************************)
RPM_WINDOW == 60
TPD_WINDOW == 86400
DEFAULT_MAX_SIZE_MB == 100
DEFAULT_MAX_AGE_DAYS == 30
DEFAULT_ROTATE_COUNT == 5
DEFAULT_MAX_MESSAGES == 50
DEFAULT_MAX_CHARS == 16000

(***************************************************************************)
(* Generic helpers.                                                        *)
(***************************************************************************)
Max(a, b) == IF a >= b THEN a ELSE b

\* dict.get(key, default) on a JSON object modelled as a record
Get(d, k, default) == IF k \in DOMAIN d THEN d[k] ELSE default

Range(s) == { s[i] : i \in DOMAIN s }

\* a mutation of SumTokens: no tokens counted
SumTokens_Zero(dq) == 0

RECURSIVE SumTokens(_)
SumTokens(dq) == IF dq = << >> THEN 0 ELSE Head(dq)[2] + SumTokens(Tail(dq))

(***************************************************************************)
(* tenants.py: key hashes.  A digest is the SHA-256 of a text; a string    *)
(* that is written in a manifest is a digest in some written form.         *)
(***************************************************************************)
sha256_hex(text) == [digest |-> text, form |-> "lower64"]

\* str.strip().lower() of a manifest entry
NormalizeHash(h) ==
    IF h.form \in {"upper64", "padded64"} THEN [h EXCEPT !.form = "lower64"] ELSE h

\* TenantConfig.__post_init__: the per-key test
ValidKeyHash(h) == NormalizeHash(h).form = "lower64"

TenantConfigValid(t) ==
    /\ t.tenant_id # ""
    /\ t.rate_limit_rpm >= 0
    /\ t.rate_limit_tpd >= 0
    /\ \A i \in DOMAIN t.api_keys : ValidKeyHash(t.api_keys[i])

NoTenant == [tenant_id |-> "", api_keys |-> << >>, rate_limit_rpm |-> 0,
             rate_limit_tpd |-> 0, enabled |-> FALSE]

\* TenantConfig(...): the record as given, or ValueError from __post_init__
TenantConfig(tenant_id, api_keys, rate_limit_rpm, rate_limit_tpd, enabled) ==
    LET t == [tenant_id |-> tenant_id, api_keys |-> api_keys,
              rate_limit_rpm |-> rate_limit_rpm, rate_limit_tpd |-> rate_limit_tpd,
              enabled |-> enabled]
    IN  IF TenantConfigValid(t) THEN [ok |-> TRUE, tenant |-> t]
        ELSE [ok |-> FALSE, tenant |-> NoTenant]

\* TenantRegistry.load: the loop over the manifest's entries
RECURSIVE LoadEntries(_, _)
LoadEntries(entries, acc) ==
    IF entries = << >> THEN [ok |-> TRUE, tenants |-> acc]
    ELSE LET e == Head(entries)
             tenant == [tenant_id      |-> e.tenant_id,
                        api_keys       |-> [i \in DOMAIN e.api_key_hashes |->
                                               NormalizeHash(e.api_key_hashes[i])],
                        rate_limit_rpm |-> Get(e, "rate_limit_rpm", 0),
                        rate_limit_tpd |-> Get(e, "rate_limit_tpd", 0),
                        enabled        |-> Get(e, "enabled", TRUE)]
         IN  IF ~TenantConfigValid(tenant) THEN [ok |-> FALSE, tenants |-> << >>]
             ELSE IF \E i \in DOMAIN acc : acc[i].tenant_id = tenant.tenant_id
                  THEN [ok |-> FALSE, tenants |-> << >>]
                  ELSE LoadEntries(Tail(entries), Append(acc, tenant))

\* TenantRegistry.load(path)
TenantRegistry_load(file) ==
    CASE file.kind = "missing"      -> [ok |-> FALSE, error |-> "FileNotFoundError", tenants |-> << >>]
      [] file.kind = "invalid_json" -> [ok |-> FALSE, error |-> "ValueError", tenants |-> << >>]
      [] file.kind = "not_object"   -> [ok |-> FALSE, error |-> "ValueError", tenants |-> << >>]
      [] OTHER ->
           LET r == LoadEntries(file.tenants, << >>)
           IN  IF r.ok THEN [ok |-> TRUE, error |-> "", tenants |-> r.tenants]
                       ELSE [ok |-> FALSE, error |-> "ValueError", tenants |-> << >>]

\* TenantRegistry._tenants.get(tenant_id)
GetTenant(tenants, tenant_id) ==
    IF \E i \in DOMAIN tenants : tenants[i].tenant_id = tenant_id
    THEN tenants[CHOOSE i \in DOMAIN tenants : tenants[i].tenant_id = tenant_id]
    ELSE NoTenant

\* str.strip() of the texts the model sends as credentials
Strip(s) ==
    CASE s = " "      -> ""
      [] s = " keyA " -> "keyA"
      [] OTHER        -> s

\* a mutation of KeyMatches: the enabled flag is not looked at
KeyMatches_IgnoresEnabled(tenant, token_hash) ==
    \E i \in DOMAIN tenant.api_keys : tenant.api_keys[i] = token_hash

\* authenticate: `is_match and tenant.enabled` for some key of the tenant
KeyMatches(tenant, token_hash) ==
    /\ \E i \in DOMAIN tenant.api_keys : tenant.api_keys[i] = token_hash
    /\ tenant.enabled

\* a mutation of AuthLoop: the first match is kept
RECURSIVE AuthLoop_FirstWins(_, _, _)
AuthLoop_FirstWins(tenants, token_hash, matched) ==
    IF tenants = << >> THEN matched
    ELSE LET tenant == Head(tenants)
         IN  AuthLoop_FirstWins(Tail(tenants), token_hash,
                                IF KeyMatches(tenant, token_hash) /\ matched = NoTenant
                                THEN tenant ELSE matched)

\* TenantRegistry.authenticate: the loop keeps overwriting `matched`
RECURSIVE AuthLoop(_, _, _)
AuthLoop(tenants, token_hash, matched) ==
    IF tenants = << >> THEN matched
    ELSE LET tenant == Head(tenants)
         IN  AuthLoop(Tail(tenants), token_hash,
                      IF KeyMatches(tenant, token_hash) THEN tenant ELSE matched)

authenticate(tenants, bearer_token) ==
    LET token == Strip(bearer_token)
    IN  IF token = "" THEN NoTenant
        ELSE AuthLoop(tenants, sha256_hex(token), NoTenant)

(***************************************************************************)
(* tenants.py: the sliding windows.                                        *)
(***************************************************************************)
\* a mutation of _prune_requests: `<` for `<=`
RECURSIVE _prune_requests_Strict(_, _)
_prune_requests_Strict(dq, now) ==
    IF dq # << >> /\ Head(dq) < now - RPM_WINDOW
    THEN _prune_requests_Strict(Tail(dq), now)
    ELSE dq

RECURSIVE _prune_requests(_, _)
_prune_requests(dq, now) ==
    IF dq # << >> /\ Head(dq) <= now - RPM_WINDOW
    THEN _prune_requests(Tail(dq), now)
    ELSE dq

\* a mutation of _prune_tokens: `<` for `<=`
RECURSIVE _prune_tokens_Strict(_, _)
_prune_tokens_Strict(dq, now) ==
    IF dq # << >> /\ Head(dq)[1] < now - TPD_WINDOW
    THEN _prune_tokens_Strict(Tail(dq), now)
    ELSE dq

RECURSIVE _prune_tokens(_, _)
_prune_tokens(dq, now) ==
    IF dq # << >> /\ Head(dq)[1] <= now - TPD_WINDOW
    THEN _prune_tokens(Tail(dq), now)
    ELSE dq

IntOrNone(v) == [none |-> FALSE, value |-> v]

\* a mutation of NoneInt: 0 for None
NoneInt_Zero == [none |-> FALSE, value |-> 0]

NoneInt == [none |-> TRUE, value |-> 0]

\* a mutation of rpm_remaining: the limit itself, whatever the window holds
rpm_remaining_Limit(tenants, reqs, tenant_id, now) ==
    LET tenant == GetTenant(tenants, tenant_id)
    IN  IF tenant = NoTenant \/ ~tenant.enabled
        THEN [result |-> IntOrNone(0), reqs |-> reqs]
        ELSE IF tenant.rate_limit_rpm = 0
        THEN [result |-> NoneInt, reqs |-> reqs]
        ELSE [result |-> IntOrNone(tenant.rate_limit_rpm), reqs |-> reqs]

\* TenantRegistry.rpm_remaining: [result, requests_by_tenant after the call]
rpm_remaining(tenants, reqs, tenant_id, now) ==
    LET tenant == GetTenant(tenants, tenant_id)
    IN  IF tenant = NoTenant \/ ~tenant.enabled
        THEN [result |-> IntOrNone(0), reqs |-> reqs]
        ELSE IF tenant.rate_limit_rpm = 0
        THEN [result |-> NoneInt, reqs |-> reqs]
        ELSE LET dq == _prune_requests(reqs[tenant_id], now)
             IN  [result |-> IntOrNone(Max(0, tenant.rate_limit_rpm - Len(dq))),
                  reqs   |-> [reqs EXCEPT ![tenant_id] = dq]]

\* a mutation of tpd_remaining: the token windows of all tenants are pruned
tpd_remaining_PrunesAll(tenants, toks, tenant_id, now) ==
    LET tenant == GetTenant(tenants, tenant_id)
    IN  IF tenant = NoTenant \/ ~tenant.enabled
        THEN [result |-> IntOrNone(0), toks |-> toks]
        ELSE IF tenant.rate_limit_tpd = 0
        THEN [result |-> NoneInt, toks |-> toks]
        ELSE LET dq   == _prune_tokens(toks[tenant_id], now)
                 used == SumTokens(dq)
             IN  [result |-> IntOrNone(Max(0, tenant.rate_limit_tpd - used)),
                  toks   |-> [t \in DOMAIN toks |-> _prune_tokens(toks[t], now)]]

\* TenantRegistry.tpd_remaining: [result, tokens_by_tenant after the call]
tpd_remaining(tenants, toks, tenant_id, now) ==
    LET tenant == GetTenant(tenants, tenant_id)
    IN  IF tenant = NoTenant \/ ~tenant.enabled
        THEN [result |-> IntOrNone(0), toks |-> toks]
        ELSE IF tenant.rate_limit_tpd = 0
        THEN [result |-> NoneInt, toks |-> toks]
        ELSE LET dq   == _prune_tokens(toks[tenant_id], now)
                 used == SumTokens(dq)
             IN  [result |-> IntOrNone(Max(0, tenant.rate_limit_tpd - used)),
                  toks   |-> [toks EXCEPT ![tenant_id] = dq]]

\* a mutation of RpmLimitReached: `>` for `>=`
RpmLimitReached_OffByOne(dq, tenant) == Len(dq) > tenant.rate_limit_rpm

\* check_rate_limit: `if len(dq) >= tenant.rate_limit_rpm`
RpmLimitReached(dq, tenant) == Len(dq) >= tenant.rate_limit_rpm

\* a mutation of check_rate_limit: the request is entered into the window
\* before the window is tested
check_rate_limit_AppendFirst(tenants, reqs, toks, tenant_id, now) ==
    LET tenant == GetTenant(tenants, tenant_id)
    IN  IF tenant = NoTenant \/ ~tenant.enabled
        THEN [ok |-> FALSE, reqs |-> reqs, toks |-> toks]
        ELSE
        LET tpd   == IF tenant.rate_limit_tpd # 0
                     THEN tpd_remaining(tenants, toks, tenant_id, now)
                     ELSE [result |-> NoneInt, toks |-> toks]
        IN  IF tenant.rate_limit_tpd # 0 /\ ~tpd.result.none /\ tpd.result.value <= 0
            THEN [ok |-> FALSE, reqs |-> reqs, toks |-> tpd.toks]
            ELSE IF tenant.rate_limit_rpm = 0
            THEN [ok |-> TRUE, reqs |-> reqs, toks |-> tpd.toks]
            ELSE LET dq == Append(_prune_requests(reqs[tenant_id], now), now)
                 IN  [ok |-> Len(dq) <= tenant.rate_limit_rpm,
                      reqs |-> [reqs EXCEPT ![tenant_id] = dq],
                      toks |-> tpd.toks]

\* TenantRegistry.check_rate_limit: [ok, both windows after the call]
check_rate_limit(tenants, reqs, toks, tenant_id, now) ==
    LET tenant == GetTenant(tenants, tenant_id)
    IN  IF tenant = NoTenant \/ ~tenant.enabled
        THEN [ok |-> FALSE, reqs |-> reqs, toks |-> toks]
        ELSE
        LET tpd   == IF tenant.rate_limit_tpd # 0
                     THEN tpd_remaining(tenants, toks, tenant_id, now)
                     ELSE [result |-> NoneInt, toks |-> toks]
        IN  IF tenant.rate_limit_tpd # 0 /\ ~tpd.result.none /\ tpd.result.value <= 0
            THEN [ok |-> FALSE, reqs |-> reqs, toks |-> tpd.toks]
            ELSE IF tenant.rate_limit_rpm = 0
            THEN [ok |-> TRUE, reqs |-> reqs, toks |-> tpd.toks]
            ELSE LET dq == _prune_requests(reqs[tenant_id], now)
                 IN  IF RpmLimitReached(dq, tenant)
                     THEN [ok |-> FALSE, reqs |-> [reqs EXCEPT ![tenant_id] = dq],
                           toks |-> tpd.toks]
                     ELSE [ok |-> TRUE,
                           reqs |-> [reqs EXCEPT ![tenant_id] = Append(dq, now)],
                           toks |-> tpd.toks]

\* a mutation of record_usage: no test of rate_limit_tpd
record_usage_NoLimitTest(tenants, toks, tenant_id, tokens, now) ==
    LET tenant == GetTenant(tenants, tenant_id)
    IN  IF tenant = NoTenant \/ ~tenant.enabled
        THEN [raised |-> FALSE, toks |-> toks]
        ELSE IF tokens < 0
        THEN [raised |-> TRUE, toks |-> toks]
        ELSE LET dq == _prune_tokens(toks[tenant_id], now)
             IN  [raised |-> FALSE,
                  toks   |-> [toks EXCEPT ![tenant_id] = Append(dq, << now, tokens >>)]]

\* TenantRegistry.record_usage: [raised, tokens_by_tenant after the call]
record_usage(tenants, toks, tenant_id, tokens, now) ==
    LET tenant == GetTenant(tenants, tenant_id)
    IN  IF tenant = NoTenant \/ ~tenant.enabled
        THEN [raised |-> FALSE, toks |-> toks]
        ELSE IF tokens < 0
        THEN [raised |-> TRUE, toks |-> toks]
        ELSE IF tenant.rate_limit_tpd = 0
        THEN [raised |-> FALSE, toks |-> toks]
        ELSE LET dq == _prune_tokens(toks[tenant_id], now)
             IN  [raised |-> FALSE,
                  toks   |-> [toks EXCEPT ![tenant_id] = Append(dq, << now, tokens >>)]]

(***************************************************************************)
(* pii.py: configuration of the gate.                                      *)
(***************************************************************************)
PATTERNS == << "ssn", "email", "phone", "credit_card", "ip_address" >>
DEFAULT_ENABLED == { "ssn", "credit_card", "email", "phone", "ip_address" }

DefaultPIIDetectorConfig == [enabled |-> TRUE, patterns |-> DEFAULT_ENABLED]

\* the JSON values an "enabled" entry can hold
JBool(b) == [t |-> "bool", b |-> b, n |-> 0, s |-> ""]
JNull == [t |-> "null", b |-> FALSE, n |-> 0, s |-> ""]
JInt(n) == [t |-> "int", b |-> FALSE, n |-> n, s |-> ""]
JStr(s) == [t |-> "str", b |-> FALSE, n |-> 0, s |-> s]

\* bool(v) of a JSON value
Truthy(v) ==
    CASE v.t = "bool" -> v.b
      [] v.t = "null" -> FALSE
      [] v.t = "int"  -> v.n # 0
      [] v.t = "str"  -> v.s # ""

\* PIIDetectorConfig.from_dict; `data` is [isNone |-> TRUE] or the JSON object
\* under "d"; a "patterns" entry is [list |-> <<names>>] or [other |-> TRUE]
PIIDetectorConfig_from_dict(data) ==
    IF data.isNone THEN DefaultPIIDetectorConfig
    ELSE LET enabled      == Truthy(Get(data.d, "enabled", JBool(TRUE)))
             hasPatterns  == "patterns" \in DOMAIN data.d
             patterns_raw == Get(data.d, "patterns", [other |-> TRUE])
             valid        == IF hasPatterns /\ "list" \in DOMAIN patterns_raw
                             THEN Range(patterns_raw.list) \cap Range(PATTERNS)
                             ELSE {}
         IN  [enabled  |-> enabled,
              patterns |-> IF valid # {} THEN valid ELSE DEFAULT_ENABLED]

(***************************************************************************)
(* policy.py                                                               *)
(***************************************************************************)
\* `x or default` for lists
OrList(d, k, default) ==
    IF k \in DOMAIN d /\ d[k] # << >> THEN d[k] ELSE default

EmptyObject == [none_ |-> TRUE]

\* `x or {}` for objects
OrObject(d, k) == IF k \in DOMAIN d THEN d[k] ELSE EmptyObject

PolicyError(msg) == [ok |-> FALSE, error |-> msg]

\* Policy.from_dict, the checks in the order of the code
Policy_from_dict(data) ==
    LET limits        == OrObject(data, "limits")
        logging_cfg   == OrObject(data, "logging")
        retention_cfg == OrObject(logging_cfg, "retention")
        pii_gate_cfg  == IF "pii_gate" \in DOMAIN data
                         THEN [isNone |-> FALSE, d |-> data.pii_gate]
                         ELSE [isNone |-> TRUE]
        allowed_providers == OrList(data, "allowed_providers", << >>)
        allowed_models    == OrList(data, "allowed_models", << "*" >>)
        logging_mode  == Get(logging_cfg, "mode", "metadata_only")
        logging_sink  == Get(logging_cfg, "sink", "jsonl")
        logging_path  == Get(logging_cfg, "path", "")
        retention     == [max_size_mb  |-> Get(retention_cfg, "max_size_mb", DEFAULT_MAX_SIZE_MB),
                          max_age_days |-> Get(retention_cfg, "max_age_days", DEFAULT_MAX_AGE_DAYS),
                          rotate_count |-> Get(retention_cfg, "rotate_count", DEFAULT_ROTATE_COUNT)]
    IN  IF logging_mode # "metadata_only"
            THEN PolicyError("Unsupported logging.mode")
        ELSE IF logging_sink \notin {"jsonl", "stdout"}
            THEN PolicyError("Unsupported logging.sink")
        ELSE IF logging_sink = "jsonl" /\ logging_path = ""
            THEN PolicyError("logging.path required when logging.sink is jsonl")
        ELSE IF retention.max_size_mb < 0
            THEN PolicyError("logging.retention.max_size_mb must be >= 0")
        ELSE IF retention.max_age_days < 0
            THEN PolicyError("logging.retention.max_age_days must be >= 0")
        ELSE IF retention.rotate_count < 0
            THEN PolicyError("logging.retention.rotate_count must be >= 0")
        ELSE IF allowed_providers = << >>
            THEN PolicyError("allowed_providers must be non-empty")
        ELSE [ok |-> TRUE, error |-> "",
              policy |->
                [version                      |-> Get(data, "version", "0"),
                 enforce_zdr_only             |-> Get(data, "enforce_zdr_only", TRUE),
                 require_scrubbed_attestation |-> Get(data, "require_scrubbed_attestation", TRUE),
                 allowed_providers            |-> allowed_providers,
                 allowed_models               |-> allowed_models,
                 max_messages                 |-> Get(limits, "max_messages", DEFAULT_MAX_MESSAGES),
                 max_chars_per_message        |-> Get(limits, "max_chars_per_message", DEFAULT_MAX_CHARS),
                 logging_mode                 |-> logging_mode,
                 logging_sink                 |-> logging_sink,
                 logging_path                 |-> logging_path,
                 logging_retention            |-> retention,
                 pii_gate                     |-> PIIDetectorConfig_from_dict(pii_gate_cfg)]]

\* Policy.load(path)
Policy_load(file) ==
    CASE file.kind = "missing"      -> PolicyError("FileNotFoundError")
      [] file.kind = "invalid_json" -> PolicyError("JSONDecodeError")
      [] file.kind = "not_object"   -> PolicyError("Policy file must be a JSON object")
      [] OTHER                      -> Policy_from_dict(file.data)

(***************************************************************************)
(* pii.py: the detector.  The texts the model sends are the literals       *)
(* below; RegexFind is what PATTERNS[pii_type].finditer returns on each    *)
(* of them (start and end offsets of every match, in text order).          *)
(*   "hello"  "123-45-6789"  "987-65-4321"  "a@b.co"  "<NUL>" (one \x00)   *)
(*   "xxxxxxxxxxxx"  "my ssn: 123-45-6789"  "<NUL> 123-45-6789"            *)
(*   "a@b.co 123-45-6789"                                                  *)
(***************************************************************************)
StrLen(text) ==
    CASE text = ""                    -> 0
      [] text = "hello"               -> 5
      [] text = "123-45-6789"         -> 11
      [] text = "987-65-4321"         -> 11
      [] text = "a@b.co"              -> 6
      [] text = "<NUL>"               -> 1
      [] text = "xxxxxxxxxxxx"        -> 12
      [] text = "my ssn: 123-45-6789" -> 19
      [] text = "<NUL> 123-45-6789"   -> 13
      [] text = "a@b.co 123-45-6789"  -> 18

\* "\x00" in text
HasNullByte(text) == text \in {"<NUL>", "<NUL> 123-45-6789"}

RegexFind(pii_type, text) ==
    CASE pii_type = "ssn" /\ text \in {"123-45-6789", "987-65-4321"} -> << << 0, 11 >> >>
      [] pii_type = "ssn" /\ text = "my ssn: 123-45-6789"            -> << << 8, 19 >> >>
      [] pii_type = "ssn" /\ text = "<NUL> 123-45-6789"              -> << << 2, 13 >> >>
      [] pii_type = "ssn" /\ text = "a@b.co 123-45-6789"             -> << << 7, 18 >> >>
      [] pii_type = "email" /\ text \in {"a@b.co", "a@b.co 123-45-6789"} -> << << 0, 6 >> >>
      [] OTHER -> << >>

\* PIIMatch: type and offsets, never the matched text
PIIMatch(pii_type, span) == [pii_type |-> pii_type, start |-> span[1], end |-> span[2]]

\* PIIDetector.scan: the outer loop over the active patterns, in PATTERNS order
RECURSIVE ScanLoop(_, _, _)
ScanLoop(types, active, text) ==
    IF types = << >> THEN << >>
    ELSE LET pii_type == Head(types)
             found    == IF pii_type \in active THEN RegexFind(pii_type, text) ELSE << >>
         IN  [i \in DOMAIN found |-> PIIMatch(pii_type, found[i])]
             \o ScanLoop(Tail(types), active, text)

\* a mutation of scan: the enabled flag is not looked at
scan_IgnoresEnabled(config, text) == ScanLoop(PATTERNS, config.patterns, text)

\* PIIDetector.scan(text)
scan(config, text) ==
    IF ~config.enabled THEN << >> ELSE ScanLoop(PATTERNS, config.patterns, text)

\* PIIDetector.contains_pii(text)
contains_pii(config, text) ==
    IF ~config.enabled THEN FALSE
    ELSE \E i \in DOMAIN PATTERNS :
            PATTERNS[i] \in config.patterns /\ RegexFind(PATTERNS[i], text) # << >>

\* PIIDetector.scan_messages(messages): the matches of each message that has
\* some, by (0-based) index; a message is a dict whose content is a string or None
scan_messages(config, messages) ==
    IF ~config.enabled THEN << >>
    ELSE LET content(i) == IF messages[i].content.none \/ messages[i].content.s = ""
                           THEN "" ELSE messages[i].content.s
             hits == { i \in DOMAIN messages : scan(config, content(i)) # << >> }
         IN  [k \in { i - 1 : i \in hits } |-> scan(config, content(k + 1))]

(***************************************************************************)
(* schemas.py / app.py: requests and responses.                            *)
(***************************************************************************)
ALLOWED_ROLES == << "system", "user", "assistant", "tool", "function" >>

NoneStr == [none |-> TRUE, s |-> ""]
Str(t) == [none |-> FALSE, s |-> t]

\* `x or ""`, `x or "stub"`
OrStr(x, default) == IF x.none \/ x.s = "" THEN default ELSE x.s

Msg(role, content) == [role |-> role, content |-> content]

RECURSIVE TotalChars(_)
TotalChars(messages) ==
    IF messages = << >> THEN 0
    ELSE StrLen(OrStr(Head(messages).content, "")) + TotalChars(Tail(messages))

\* the least element of a non-empty set of indices: where a `for` loop stops first
FirstIdx(S) == CHOOSE i \in S : \A j \in S : i <= j

NoDeny == [hit |-> FALSE]
DenySpec(code, message, details, http) ==
    [hit |-> TRUE, code |-> code, message |-> message, details |-> details, http |-> http]

\* a mutation of DenyEvent: deny keeps the tenant_id it saw when it was defined
DenyEvent_Hint(req, tenant_id, d) ==
    [tenant_id         |-> OrStr(req.x_zeroveil_tenant, "default"),
     action            |-> "deny",
     reason            |-> d.code,
     provider          |-> "None",
     model             |-> req.model,
     message_count     |-> Len(req.messages),
     total_chars       |-> TotalChars(req.messages),
     zdr_only          |-> req.zdr_only,
     scrubbed_attested |-> req.scrubbed,
     extra             |-> [details |-> d.details]]

\* AuditEvent.now(...) as chat_completions.deny builds it
DenyEvent(req, tenant_id, d) ==
    [tenant_id         |-> tenant_id,
     action            |-> "deny",
     reason            |-> d.code,
     provider          |-> "None",
     model             |-> req.model,
     message_count     |-> Len(req.messages),
     total_chars       |-> TotalChars(req.messages),
     zdr_only          |-> req.zdr_only,
     scrubbed_attested |-> req.scrubbed,
     extra             |-> [details |-> d.details]]

\* app.py 153-154
CheckMessagesNonEmpty(req) ==
    IF req.messages = << >>
    THEN DenySpec("invalid_request", "messages must be non-empty",
                  [field |-> "messages"], 400)
    ELSE NoDeny

\* app.py 156-163
CheckRoles(req) ==
    LET bad == { i \in DOMAIN req.messages : req.messages[i].role \notin Range(ALLOWED_ROLES) }
    IN  IF bad # {}
        THEN LET i == FirstIdx(bad)
             IN  DenySpec("invalid_request", "Invalid message role",
                          [field |-> "messages[i].role", i |-> i - 1,
                           value |-> req.messages[i].role, allowed |-> ALLOWED_ROLES], 400)
        ELSE NoDeny

\* a mutation of PiiDetails: the scanned text is reported too
PiiDetails_EchoesText(i, text, matches) ==
    [field |-> "messages[i].content", i |-> i - 1,
     detected_types |-> { matches[k].pii_type : k \in DOMAIN matches },
     matched |-> text]

\* app.py 172-176: what the gate reports about the matches of message i
PiiDetails(i, text, matches) ==
    [field |-> "messages[i].content", i |-> i - 1,
     detected_types |-> { matches[k].pii_type : k \in DOMAIN matches }]

\* app.py 165-178
CheckPii(pol, req) ==
    IF ~pol.pii_gate.enabled THEN NoDeny
    ELSE LET hits == { i \in DOMAIN req.messages :
                         scan(pol.pii_gate, OrStr(req.messages[i].content, "")) # << >> }
         IN  IF hits # {}
             THEN LET i    == FirstIdx(hits)
                      text == OrStr(req.messages[i].content, "")
                  IN  DenySpec("pii_detected",
                               "Request contains unscrubbed PII. Scrub before retry.",
                               PiiDetails(i, text, scan(pol.pii_gate, text)), 403)
             ELSE NoDeny

\* app.py 180-186
CheckMaxMessages(pol, req) ==
    IF Len(req.messages) > pol.max_messages
    THEN DenySpec("policy_denied", "Too many messages", [limit |-> pol.max_messages], 403)
    ELSE NoDeny

\* app.py 188-195
CheckModel(pol, req) ==
    IF /\ pol.allowed_models # << >>
       /\ "*" \notin Range(pol.allowed_models)
       /\ ~req.model.none
       /\ req.model.s \notin Range(pol.allowed_models)
    THEN DenySpec("policy_denied", "Model not allowed by policy",
                  [field |-> "model", value |-> req.model.s,
                   allowed |-> pol.allowed_models], 403)
    ELSE NoDeny

\* app.py 196-203
CheckMaxChars(pol, req) ==
    LET big == { i \in DOMAIN req.messages :
                   StrLen(OrStr(req.messages[i].content, "")) > pol.max_chars_per_message }
    IN  IF big # {}
        THEN DenySpec("policy_denied", "Message too large",
                      [index |-> FirstIdx(big) - 1, limit |-> pol.max_chars_per_message], 403)
        ELSE NoDeny

\* a mutation of CheckZdr: the negation is lost
CheckZdr_Inverted(pol, req) ==
    IF pol.enforce_zdr_only /\ req.zdr_only
    THEN DenySpec("policy_denied", "zdr_only must be true", [field |-> "zdr_only"], 403)
    ELSE NoDeny

\* app.py 205-206
CheckZdr(pol, req) ==
    IF pol.enforce_zdr_only /\ ~req.zdr_only
    THEN DenySpec("policy_denied", "zdr_only must be true", [field |-> "zdr_only"], 403)
    ELSE NoDeny

\* app.py 208-214
CheckScrubbed(pol, req) ==
    IF pol.require_scrubbed_attestation /\ ~req.scrubbed
    THEN DenySpec("policy_denied", "Scrub attestation required",
                  [field |-> "metadata.scrubbed"], 403)
    ELSE NoDeny

\* app.py 216-230: per message, None first, then the null byte
CheckContent(req) ==
    LET bad == { i \in DOMAIN req.messages :
                   \/ req.messages[i].content.none
                   \/ HasNullByte(req.messages[i].content.s) }
    IN  IF bad # {}
        THEN LET i == FirstIdx(bad)
             IN  IF req.messages[i].content.none
                 THEN DenySpec("invalid_request", "messages[i].content must be a string",
                               [field |-> "messages[i].content", i |-> i - 1], 400)
                 ELSE DenySpec("invalid_request", "messages[i].content contains null bytes",
                               [field |-> "messages[i].content", i |-> i - 1], 400)
        ELSE NoDeny

\* a mutation of BodyChecks: the model is tested before the message count
BodyChecks_ModelFirst(pol, req) ==
    << CheckMessagesNonEmpty(req), CheckRoles(req), CheckPii(pol, req),
       CheckModel(pol, req), CheckMaxMessages(pol, req), CheckMaxChars(pol, req),
       CheckZdr(pol, req), CheckScrubbed(pol, req), CheckContent(req) >>

\* app.py 153-230: the checks on the body, in the order the handler makes them
BodyChecks(pol, req) ==
    << CheckMessagesNonEmpty(req), CheckRoles(req), CheckPii(pol, req),
       CheckMaxMessages(pol, req), CheckModel(pol, req), CheckMaxChars(pol, req),
       CheckZdr(pol, req), CheckScrubbed(pol, req), CheckContent(req) >>

\* the first check that raised; NoDeny when none did
FirstDeny(checks) ==
    LET hits == { i \in DOMAIN checks : checks[i].hit }
    IN  IF hits = {} THEN NoDeny ELSE checks[FirstIdx(hits)]

(***************************************************************************)
(* app.py: chat_completions.                                               *)
(***************************************************************************)
\* `not authorization or not authorization.startswith("Bearer ")`
\* a mutation of MissingBearer: only the absent header counts
MissingBearer_AbsentOnly(authorization) == ~authorization.present

MissingBearer(authorization) ==
    \/ ~authorization.present
    \/ authorization.prefix # "Bearer "

\* a mutation of LegacyKeyMatches: every token is taken
LegacyKeyMatches_Always(token, legacy_key) == TRUE

\* app.py 150: `token != legacy_api_key`
LegacyKeyMatches(token, legacy_key) == token = legacy_key

\* app.py 126-151: authentication and the rate check.  The result holds the
\* denial (if any), the tenant_id in force afterwards, and the two windows.
AuthStage(reg, legacy_key, reqs, toks, req, now) ==
    LET hinted == OrStr(req.x_zeroveil_tenant, "default")
        base   == [deny |-> NoDeny, tenant_id |-> hinted, authenticated |-> FALSE,
                   rate_called |-> FALSE, rate_ok |-> FALSE, reqs |-> reqs, toks |-> toks]
    IN  IF reg.loaded
        THEN IF MissingBearer(req.authorization)
             THEN [base EXCEPT !.deny = DenySpec("unauthorized", "Missing bearer token",
                                                 [header |-> "Authorization"], 401)]
             ELSE
             LET token  == Strip(req.authorization.rest)
                 tenant == authenticate(reg.tenants, token)
             IN  IF tenant = NoTenant
                 THEN [base EXCEPT !.deny = DenySpec("unauthorized", "Invalid API key",
                                                     [empty |-> TRUE], 401)]
                 ELSE
                 LET tenant_id == tenant.tenant_id
                     rl  == check_rate_limit(reg.tenants, reqs, toks, tenant_id, now)
                     rpm == rpm_remaining(reg.tenants, rl.reqs, tenant_id, now)
                     tpd == tpd_remaining(reg.tenants, rl.toks, tenant_id, now)
                 IN  IF ~rl.ok
                     THEN [deny |-> DenySpec("rate_limited", "Rate limit exceeded",
                                             [rpm_remaining |-> rpm.result,
                                              tpd_remaining |-> tpd.result], 429),
                           tenant_id |-> tenant_id, authenticated |-> TRUE,
                           rate_called |-> TRUE, rate_ok |-> FALSE,
                           reqs |-> rpm.reqs, toks |-> tpd.toks]
                     ELSE [deny |-> NoDeny,
                           tenant_id |-> tenant_id, authenticated |-> TRUE,
                           rate_called |-> TRUE, rate_ok |-> TRUE,
                           reqs |-> rl.reqs, toks |-> rl.toks]
        ELSE IF legacy_key # ""
        THEN IF MissingBearer(req.authorization)
             THEN [base EXCEPT !.deny = DenySpec("unauthorized", "Missing bearer token",
                                                 [header |-> "Authorization"], 401)]
             ELSE IF ~LegacyKeyMatches(Strip(req.authorization.rest), legacy_key)
             THEN [base EXCEPT !.deny = DenySpec("unauthorized", "Invalid API key",
                                                 [empty |-> TRUE], 401)]
             ELSE base
        ELSE base

\* handle_validation_error: the body did not parse into ChatCompletionsRequest;
\* chat_completions is never entered
ValidationErrorResponse(req, reqs, toks) ==
    [status |-> 400, code |-> "invalid_request", message |-> "Invalid request body",
     details |-> [errors |-> "RequestValidationError"],
     audit |-> << >>, headers |-> [rpm |-> NoneInt, tpd |-> NoneInt],
     tenant_id |-> "", authenticated |-> FALSE, rate_called |-> FALSE, rate_ok |-> FALSE,
     usage_recorded |-> FALSE, total_tokens |-> 0, provider |-> "None", model |-> "None",
     reqs |-> reqs, toks |-> toks]

\* a mutation of DeniedResponse: a denial gives the RPM slot back
DeniedResponse_Refunds(req, a, d) ==
    [status |-> d.http, code |-> d.code, message |-> d.message, details |-> d.details,
     audit |-> << DenyEvent(req, a.tenant_id, d) >>,
     headers |-> [rpm |-> NoneInt, tpd |-> NoneInt],
     tenant_id |-> a.tenant_id, authenticated |-> a.authenticated,
     rate_called |-> a.rate_called, rate_ok |-> a.rate_ok,
     usage_recorded |-> FALSE, total_tokens |-> 0, provider |-> "None", model |-> "None",
     reqs |-> IF a.rate_ok
              THEN [a.reqs EXCEPT ![a.tenant_id] = SubSeq(@, 1, Len(@) - 1)]
              ELSE a.reqs,
     toks |-> a.toks]

\* chat_completions.deny: one audit event, then GatewayError
DeniedResponse(req, a, d) ==
    [status |-> d.http, code |-> d.code, message |-> d.message, details |-> d.details,
     audit |-> << DenyEvent(req, a.tenant_id, d) >>,
     headers |-> [rpm |-> NoneInt, tpd |-> NoneInt],
     tenant_id |-> a.tenant_id, authenticated |-> a.authenticated,
     rate_called |-> a.rate_called, rate_ok |-> a.rate_ok,
     usage_recorded |-> FALSE, total_tokens |-> 0, provider |-> "None", model |-> "None",
     reqs |-> a.reqs, toks |-> a.toks]

\* app.py 236-251: AuditEvent.now(...) of an admitted request
AllowEvent(pol, req, tenant_id, selected_provider, selected_model) ==
    [tenant_id         |-> tenant_id,
     action            |-> "allow",
     reason            |-> "ok",
     provider          |-> selected_provider,
     model             |-> selected_model,
     message_count     |-> Len(req.messages),
     total_chars       |-> TotalChars(req.messages),
     zdr_only          |-> req.zdr_only,
     scrubbed_attested |-> req.scrubbed,
     extra             |-> [policy_version |-> pol.version]]

\* app.py 232-281: routing stub, allow event, headers, record_usage
AllowedResponse(pol, reg, req, a, now) ==
    LET selected_provider == pol.allowed_providers[1]
        selected_model    == OrStr(req.model, "stub")
        event == AllowEvent(pol, req, a.tenant_id, selected_provider, selected_model)
        tenantAuth == reg.loaded /\ a.authenticated
        rpm == IF tenantAuth THEN rpm_remaining(reg.tenants, a.reqs, a.tenant_id, now)
                             ELSE [result |-> NoneInt, reqs |-> a.reqs]
        tpd == IF tenantAuth THEN tpd_remaining(reg.tenants, a.toks, a.tenant_id, now)
                             ELSE [result |-> NoneInt, toks |-> a.toks]
        total_tokens == 0
        used == IF tenantAuth
                THEN record_usage(reg.tenants, tpd.toks, a.tenant_id, total_tokens, now)
                ELSE [raised |-> FALSE, toks |-> tpd.toks]
    IN  [status |-> 200, code |-> "ok", message |-> "", details |-> [empty |-> TRUE],
         audit |-> << event >>,
         headers |-> [rpm |-> rpm.result, tpd |-> tpd.result],
         tenant_id |-> a.tenant_id, authenticated |-> a.authenticated,
         rate_called |-> a.rate_called, rate_ok |-> a.rate_ok,
         usage_recorded |-> tenantAuth, total_tokens |-> total_tokens,
         provider |-> selected_provider,
         model |-> selected_model,
         reqs |-> rpm.reqs, toks |-> used.toks]

\* POST /v1/chat/completions, from the parsed request to the response
chat_completions(pol, reg, legacy_key, reqs, toks, req, now) ==
    IF ~req.body_valid THEN ValidationErrorResponse(req, reqs, toks)
    ELSE LET a == AuthStage(reg, legacy_key, reqs, toks, req, now)
         IN  IF a.deny.hit THEN DeniedResponse(req, a, a.deny)
             ELSE LET d == FirstDeny(BodyChecks(pol, req))
                  IN  IF d.hit THEN DeniedResponse(req, a, d)
                      ELSE AllowedResponse(pol, reg, req, a, now)

(***************************************************************************)
(* The environment of Spec: configuration files and requests.              *)
(***************************************************************************)
TenantIds == { "tenantA", "tenantB", "tenantD" }

Written(text, form) == [digest |-> text, form |-> form]

EntryA == [tenant_id |-> "tenantA", api_key_hashes |-> << Written("keyA", "upper64") >>,
           rate_limit_rpm |-> 2, rate_limit_tpd |-> 1000, enabled |-> TRUE]
EntryB == [tenant_id |-> "tenantB", api_key_hashes |-> << Written("keyB", "lower64") >>]
EntryD == [tenant_id |-> "tenantD", api_key_hashes |-> << Written("keyD", "lower64") >>,
           rate_limit_rpm |-> 1, rate_limit_tpd |-> 0, enabled |-> FALSE]

ValidManifest == [kind |-> "object", tenants |-> << EntryA, EntryB, EntryD >>]

TenantsFiles ==
    { ValidManifest,
      [kind |-> "missing"],
      [kind |-> "invalid_json"],
      [kind |-> "not_object"],
      [kind |-> "object", tenants |-> << EntryA, EntryB, [EntryD EXCEPT !.tenant_id = "tenantA"] >>],
      [kind |-> "object",
       tenants |-> << [EntryA EXCEPT !.api_key_hashes = << Written("keyA", "short") >>] >>] }

\* what §7 of the design calls a malformed tenant manifest
TenantsFileMalformed(file) == file.kind # "missing" /\ file # ValidManifest

StrictPolicy ==
    [version |-> "1",
     allowed_providers |-> << "openrouter", "backup" >>,
     allowed_models |-> << "m1" >>,
     limits |-> [max_messages |-> 2, max_chars_per_message |-> 11],
     logging |-> [sink |-> "stdout"],
     pii_gate |-> [patterns |-> [list |-> << "ssn", "email", "passport" >>]]]

LenientPolicy ==
    [version |-> "2",
     enforce_zdr_only |-> FALSE,
     require_scrubbed_attestation |-> FALSE,
     allowed_providers |-> << "openrouter" >>,
     limits |-> [max_messages |-> 2, max_chars_per_message |-> 11],
     logging |-> [mode |-> "metadata_only", sink |-> "jsonl", path |-> "audit.jsonl"],
     pii_gate |-> [enabled |-> JBool(FALSE)]]

ZdrPolicy ==
    [version |-> "3",
     enforce_zdr_only |-> TRUE,
     require_scrubbed_attestation |-> FALSE,
     allowed_providers |-> << "openrouter" >>,
     allowed_models |-> << "*" >>,
     limits |-> [max_messages |-> 2, max_chars_per_message |-> 11],
     logging |-> [sink |-> "stdout"]]

ScrubPolicy ==
    [version |-> "4",
     enforce_zdr_only |-> FALSE,
     require_scrubbed_attestation |-> TRUE,
     allowed_providers |-> << "backup" >>,
     allowed_models |-> << "m1", "m3" >>,
     limits |-> [max_messages |-> 2, max_chars_per_message |-> 11],
     logging |-> [sink |-> "stdout"],
     pii_gate |-> [enabled |-> JBool(TRUE), patterns |-> [list |-> << "ssn" >>]]]

PolicyFiles ==
    { [kind |-> "object", data |-> StrictPolicy],
      [kind |-> "object", data |-> LenientPolicy],
      [kind |-> "object", data |-> ZdrPolicy],
      [kind |-> "object", data |-> ScrubPolicy],
      [kind |-> "object", data |-> [StrictPolicy EXCEPT !.logging = [mode |-> "full"]]],
      [kind |-> "object", data |-> [StrictPolicy EXCEPT !.allowed_providers = << >>]],
      [kind |-> "invalid_json"],
      [kind |-> "not_object"] }

PolicyFileMalformed(file) == ~Policy_load(file).ok

LegacyKeys == { "", "legacy" }

NoAuthorization == [present |-> FALSE, prefix |-> "", rest |-> ""]
Bearer(t) == [present |-> TRUE, prefix |-> "Bearer ", rest |-> t]

Authorizations ==
    { NoAuthorization,
      [present |-> TRUE, prefix |-> "Basic ", rest |-> "keyA"],
      Bearer(""), Bearer(" "), Bearer("keyA"), Bearer(" keyA "), Bearer("keyB"),
      Bearer("keyD"), Bearer("unknown"), Bearer("legacy") }

Good == Msg("user", Str("hello"))
BadRole == Msg("root", Str("hello"))
NoneContent == Msg("user", NoneStr)
Texts == { "123-45-6789", "987-65-4321", "a@b.co", "<NUL>", "xxxxxxxxxxxx",
           "my ssn: 123-45-6789", "<NUL> 123-45-6789", "a@b.co 123-45-6789" }
Pool == { Good, BadRole, NoneContent } \cup { Msg("user", Str(t)) : t \in Texts }

MessageLists ==
    { << >> }
    \cup { << m >> : m \in Pool }
    \cup { << Good, m >> : m \in Pool }
    \cup { << m, BadRole >> : m \in Pool }
    \cup { << Msg("user", Str("123-45-6789")), Msg("user", Str("a@b.co")) >>,
           << Msg("user", Str("a@b.co")), Msg("user", Str("987-65-4321")) >>,
           << Msg("user", Str("<NUL>")), Msg("user", Str("xxxxxxxxxxxx")) >>,
           << Msg("user", Str("<NUL>")), NoneContent >>,
           << NoneContent, Msg("user", Str("<NUL>")) >>,
           << Good, Good, Good >>,
           << Good, Good, BadRole >>,
           << Good, Good, Msg("user", Str("123-45-6789")) >>,
           << Good, Good, Msg("user", Str("xxxxxxxxxxxx")) >>,
           << Good, Good, Msg("user", Str("<NUL>")) >> }

Models == { NoneStr, Str("m1"), Str("m2") }

Request(authorization, hint, messages, model, zdr_only, scrubbed) ==
    [body_valid |-> TRUE, authorization |-> authorization, x_zeroveil_tenant |-> hint,
     messages |-> messages, model |-> model, zdr_only |-> zdr_only, scrubbed |-> scrubbed]

\* a body that fails schema validation ({}): the defaults stand for the missing fields
InvalidBodyRequest(authorization) ==
    [body_valid |-> FALSE, authorization |-> authorization, x_zeroveil_tenant |-> NoneStr,
     messages |-> << >>, model |-> NoneStr, zdr_only |-> TRUE, scrubbed |-> FALSE]

\* every credential, with a body that passes every policy and with one that does not
AuthSlice ==
    { Request(a, h, << Good >>, Str("m1"), z, z) :
        a \in Authorizations, h \in { NoneStr, Str("tenantB") }, z \in BOOLEAN }

\* every body, sent with tenant A's key
BodySlice ==
    { Request(Bearer("keyA"), NoneStr, ms, m, z, sc) :
        ms \in MessageLists, m \in Models, z \in BOOLEAN, sc \in BOOLEAN }

CredentialRequests ==
    AuthSlice \cup { InvalidBodyRequest(a) : a \in { NoAuthorization, Bearer("keyA") } }

Requests == CredentialRequests \cup BodySlice

NoPolicy == [version |-> "unloaded"]
NoRegistry == [loaded |-> FALSE, tenants |-> << >>]
NoLast == [kind |-> "none"]

EmptyWindows == [t \in TenantIds |-> << >>]

(***************************************************************************)
(* Variables of the other specifications, parked.                          *)
(***************************************************************************)
ConcIdle == thr = << >>
HistIdle == recorded = << >>
AuditIdle ==
    /\ files = << >> /\ inodes = << >> /\ athr = << >> /\ logged = 0
    /\ stdout = << >> /\ _retention = << >>

(***************************************************************************)
(* Spec: one request at a time.                                            *)
(***************************************************************************)
Init ==
    /\ phase = "boot"
    /\ policyFile \in PolicyFiles
    /\ tenantsFile \in TenantsFiles
    /\ legacy_api_key \in LegacyKeys
    /\ policy = NoPolicy
    /\ registry = NoRegistry
    /\ clock = 0
    /\ ticks = 0
    /\ requests_by_tenant = EmptyWindows
    /\ tokens_by_tenant = EmptyWindows
    /\ allowed_calls = EmptyWindows
    /\ last = NoLast
    /\ ConcIdle
    /\ AuditIdle
    /\ recorded = EmptyWindows

\* create_app(): Policy.load raises through; TenantRegistry.load's
\* FileNotFoundError and ValueError are caught and leave registry = None
create_app ==
    /\ phase = "boot"
    /\ LET p == Policy_load(policyFile)
           r == TenantRegistry_load(tenantsFile)
       IN  IF ~p.ok
           THEN /\ phase' = "failed"
                /\ UNCHANGED << policy, registry >>
           ELSE /\ phase' = "serving"
                /\ policy' = p.policy
                /\ registry' = IF r.ok THEN [loaded |-> TRUE, tenants |-> r.tenants]
                                       ELSE NoRegistry
    /\ UNCHANGED << policyFile, tenantsFile, legacy_api_key, clock, ticks,
                    requests_by_tenant, tokens_by_tenant, allowed_calls, last >>
    /\ UNCHANGED << concVars, auditVars, histVars >>

\* time passes between two requests
Tick ==
    /\ phase = "serving"
    /\ registry.loaded
    /\ ticks < MaxTicks
    /\ ticks' = ticks + 1
    /\ clock' = clock + TickStep
    /\ UNCHANGED << configVars, requests_by_tenant, tokens_by_tenant, allowed_calls, last >>
    /\ UNCHANGED << concVars, auditVars, histVars >>

AllowedSoFar == Len(allowed_calls["tenantA"]) + Len(allowed_calls["tenantB"])
                    + Len(allowed_calls["tenantD"])

\* the requests the environment sends in the current state: every body while the
\* registry is fresh, every credential at any time
RequestsNow == IF AllowedSoFar = 0 /\ ticks = 0 THEN Requests ELSE CredentialRequests

\* one request, handled to the end
HandleRequest ==
    /\ phase = "serving"
    /\ last = NoLast
    /\ AllowedSoFar < MaxAllowed
    /\ \E req \in RequestsNow :
         LET r == chat_completions(policy, registry, legacy_api_key,
                                   requests_by_tenant, tokens_by_tenant, req, clock)
         IN  /\ requests_by_tenant' = r.reqs
             /\ tokens_by_tenant' = r.toks
             /\ allowed_calls' =
                  IF r.rate_ok
                  THEN [allowed_calls EXCEPT ![r.tenant_id] = Append(@, clock)]
                  ELSE allowed_calls
             /\ last' = [kind |-> "response", req |-> req, now |-> clock,
                         before |-> [reqs |-> requests_by_tenant, toks |-> tokens_by_tenant],
                         resp |-> [f \in (DOMAIN r) \ {"reqs", "toks"} |-> r[f]]]
             /\ recorded' =
                  IF r.usage_recorded
                  THEN [recorded EXCEPT ![r.tenant_id] = Append(@, << clock, r.total_tokens >>)]
                  ELSE recorded
    /\ UNCHANGED << configVars, clock, ticks >>
    /\ UNCHANGED << concVars, auditVars >>

\* the response has gone to the client
Return ==
    /\ last # NoLast
    /\ last' = NoLast
    /\ UNCHANGED << configVars, clock, ticks, requests_by_tenant, tokens_by_tenant,
                    allowed_calls >>
    /\ UNCHANGED << concVars, auditVars, histVars >>

Next == create_app \/ Tick \/ HandleRequest \/ Return

Spec == Init /\ [][Next]_vars

(***************************************************************************)
(* Properties of Spec.                                                     *)
(***************************************************************************)
Responded == last.kind = "response"
InPipeline == Responded /\ last.req.body_valid
Admitted == Responded /\ last.resp.status = 200
Denied(code) == Responded /\ last.resp.status # 200 /\ last.resp.code = code

\* the tenant configuration of the tenant the last request authenticated as
LastTenant == GetTenant(registry.tenants, last.resp.tenant_id)

\* how many entries of history h lie in the interval (t - 60, t]
CountIn(h, t) == Cardinality({ j \in DOMAIN h : h[j] > t - RPM_WINDOW /\ h[j] <= t })

\* the allowed calls of the last request's tenant that were made before that request
AllowedBefore ==
    LET h == allowed_calls[last.resp.tenant_id]
    IN  IF last.resp.rate_ok THEN SubSeq(h, 1, Len(h) - 1) ELSE h

\* C1: for a tenant with rateLimitRPM = N > 0, at most N of the check_rate_limit
\* calls that returned true lie in any interval (t-60, t]; and a request made
\* while N allowed calls are still inside the window is refused by the rate
\* check and answered rate_limited with HTTP 429.
C1_RpmLimitHolds ==
    /\ \A i \in DOMAIN registry.tenants :
         LET tenant == registry.tenants[i]
         IN  tenant.rate_limit_rpm > 0 =>
               \A t \in 0 .. clock :
                   CountIn(allowed_calls[tenant.tenant_id], t) <= tenant.rate_limit_rpm
    /\ ( /\ InPipeline
         /\ last.resp.rate_called
         /\ LastTenant.rate_limit_rpm > 0
         /\ CountIn(AllowedBefore, last.now) >= LastTenant.rate_limit_rpm )
       => ( /\ ~last.resp.rate_ok
            /\ Denied("rate_limited")
            /\ last.resp.status = 429 )

\* witness of C1: the third request of tenant A inside one window was answered 429
C1_Witness ==
    /\ Denied("rate_limited")
    /\ last.resp.status = 429
    /\ last.resp.tenant_id = "tenantA"
    /\ CountIn(allowed_calls["tenantA"], last.now) = 2

\* authentication and the rate check let the last request through
AuthPassed ==
    IF registry.loaded THEN last.resp.authenticated /\ last.resp.rate_ok
    ELSE IF legacy_api_key # ""
         THEN /\ ~MissingBearer(last.req.authorization)
              /\ Strip(last.req.authorization.rest) = legacy_api_key
         ELSE TRUE

\* The checks of the design, each on its own.
StructurallyValid(req) ==
    /\ req.messages # << >>
    /\ \A i \in DOMAIN req.messages :
         /\ req.messages[i].role \in Range(ALLOWED_ROLES)
         /\ ~req.messages[i].content.none
         /\ ~HasNullByte(req.messages[i].content.s)

MatchedTypes(pol, text) ==
    { ty \in pol.pii_gate.patterns : RegexFind(ty, text) # << >> }

PiiFree(pol, req) ==
    \/ ~pol.pii_gate.enabled
    \/ \A i \in DOMAIN req.messages :
          MatchedTypes(pol, OrStr(req.messages[i].content, "")) = {}

CountWithinLimit(pol, req) == Len(req.messages) <= pol.max_messages

ModelWithinPolicy(pol, req) ==
    \/ "*" \in Range(pol.allowed_models)
    \/ req.model.none
    \/ req.model.s \in Range(pol.allowed_models)

CharsWithinLimit(pol, req) ==
    \A i \in DOMAIN req.messages :
        StrLen(OrStr(req.messages[i].content, "")) <= pol.max_chars_per_message

WithinLimits(pol, req) ==
    CountWithinLimit(pol, req) /\ ModelWithinPolicy(pol, req) /\ CharsWithinLimit(pol, req)

\* C3 as claimed: the denial is that of the first failing check in the order
\* authentication, rate limiting, structural validity (non-empty list, roles,
\* content a non-null string without a null byte), PII screening, policy
\* limits, attestation.
ClaimedOrder(pol, req) ==
    << CheckMessagesNonEmpty(req), CheckRoles(req), CheckContent(req),
       CheckPii(pol, req),
       CheckMaxMessages(pol, req), CheckModel(pol, req), CheckMaxChars(pol, req),
       CheckZdr(pol, req), CheckScrubbed(pol, req) >>

C3_ChecksInClaimedOrder ==
    (InPipeline /\ AuthPassed) =>
        LET d == FirstDeny(ClaimedOrder(policy, last.req))
        IN  IF d.hit
            THEN /\ last.resp.status = d.http
                 /\ last.resp.code = d.code
                 /\ last.resp.details = d.details
            ELSE Admitted

\* C4 as claimed: every request answered with a typed error has exactly one
\* audit event with action deny and the error's code as reason; every admitted
\* request has exactly one allow event; no request has two events or none.
C4_OneAuditEventPerRequest ==
    Responded =>
        /\ Len(last.resp.audit) = 1
        /\ IF last.resp.status = 200
           THEN last.resp.audit[1].action = "allow"
           ELSE /\ last.resp.audit[1].action = "deny"
                /\ last.resp.audit[1].reason = last.resp.code

\* the enabled tenants of the registry that hold the hash of the token
EnabledHolders(token) ==
    { i \in DOMAIN registry.tenants :
        /\ registry.tenants[i].enabled
        /\ sha256_hex(token) \in Range(registry.tenants[i].api_keys) }

\* C5: with a registry, a request is admitted only if the SHA-256 of its bearer
\* token is a key hash of an enabled tenant and check_rate_limit returned true
\* for that tenant; a token that is unknown or held only by disabled tenants is
\* answered unauthorized and never admitted.
C5_OnlyEnabledTenantsAdmitted ==
    (InPipeline /\ registry.loaded) =>
        LET token   == Strip(last.req.authorization.rest)
            holders == EnabledHolders(token)
        IN  /\ Admitted =>
                 /\ ~MissingBearer(last.req.authorization)
                 /\ \E i \in holders :
                       registry.tenants[i].tenant_id = last.resp.tenant_id
                 /\ last.resp.rate_called /\ last.resp.rate_ok
            /\ (~MissingBearer(last.req.authorization) /\ holders = {}) =>
                 /\ Denied("unauthorized")
                 /\ last.resp.status = 401
                 /\ ~last.resp.rate_called

\* witness of C5: the key of the disabled tenant was refused
C5_Witness ==
    /\ registry.loaded
    /\ Denied("unauthorized")
    /\ last.req.authorization = Bearer("keyD")
    /\ \E i \in DOMAIN registry.tenants :
          /\ ~registry.tenants[i].enabled
          /\ sha256_hex("keyD") \in Range(registry.tenants[i].api_keys)

\* the same request with other characters at the matched places
SwapText(text) ==
    CASE text = "123-45-6789" -> "987-65-4321"
      [] text = "987-65-4321" -> "123-45-6789"
      [] OTHER -> text

SwapRequest(req) ==
    [req EXCEPT !.messages =
        [i \in DOMAIN req.messages |->
            [req.messages[i] EXCEPT !.content.s = SwapText(@)]]]

\* C6: with the gate enabled no request with a message matching an enabled
\* pattern is admitted; it is answered pii_detected, details and deny event
\* hold the message index and the matched type names only, and the same
\* request with other matched characters gets the same details and event.
C6_PiiNeverAdmittedNorEchoed ==
    (InPipeline /\ policy.pii_gate.enabled /\ ~PiiFree(policy, last.req)) =>
        /\ ~Admitted
        /\ (AuthPassed /\ StructurallyValid(last.req)) =>
             LET hits == { i \in DOMAIN last.req.messages :
                             MatchedTypes(policy, last.req.messages[i].content.s) # {} }
                 i    == FirstIdx(hits)
                 want == [field |-> "messages[i].content", i |-> i - 1,
                          detected_types |->
                              MatchedTypes(policy, last.req.messages[i].content.s)]
                 twin == chat_completions(policy, registry, legacy_api_key,
                                          last.before.reqs, last.before.toks,
                                          SwapRequest(last.req), last.now)
             IN  /\ Denied("pii_detected")
                 /\ last.resp.status = 403
                 /\ last.resp.details = want
                 /\ last.resp.audit[1].extra = [details |-> want]
                 /\ twin.details = last.resp.details
                 /\ twin.audit = last.resp.audit

\* witness of C6: a denial for a request whose twin differs from it
C6_Witness ==
    /\ Denied("pii_detected")
    /\ SwapRequest(last.req) # last.req
    /\ last.resp.details.detected_types = { "ssn" }
    /\ last.resp.details.i = 1

\* C7: with enforceZdrOnly no request with zdr_only = false is admitted, and one
\* that passes the earlier checks is answered policy_denied with field zdr_only;
\* with requireScrubbedAttestation no request with metadata.scrubbed = false is
\* admitted, and one that passes the earlier checks is answered policy_denied
\* with field metadata.scrubbed.
C7_AttestationsEnforced ==
    InPipeline =>
        LET earlier == /\ AuthPassed /\ StructurallyValid(last.req)
                       /\ PiiFree(policy, last.req) /\ WithinLimits(policy, last.req)
            zdrMissing   == policy.enforce_zdr_only /\ ~last.req.zdr_only
            scrubMissing == policy.require_scrubbed_attestation /\ ~last.req.scrubbed
        IN  /\ (zdrMissing \/ scrubMissing) => ~Admitted
            /\ (zdrMissing /\ earlier) =>
                 /\ Denied("policy_denied")
                 /\ last.resp.status = 403
                 /\ last.resp.details = [field |-> "zdr_only"]
            /\ (scrubMissing /\ ~zdrMissing /\ earlier) =>
                 /\ Denied("policy_denied")
                 /\ last.resp.status = 403
                 /\ last.resp.details = [field |-> "metadata.scrubbed"]

\* witness of C7: a request refused for its missing scrub attestation alone
C7_Witness ==
    /\ Denied("policy_denied")
    /\ last.resp.details = [field |-> "metadata.scrubbed"]
    /\ policy.require_scrubbed_attestation
    /\ ~last.req.scrubbed
    /\ ~last.req.zdr_only

\* C8: no request over maxMessages, with a message over maxCharsPerMessage, or
\* with a requested model outside a restrictive allowedModels is admitted; one
\* that passes the earlier checks is answered policy_denied, the limits being
\* tested in the order message count, model, per-message length.
C8_LimitsEnforcedInOrder ==
    InPipeline =>
        LET req     == last.req
            earlier == /\ AuthPassed /\ StructurallyValid(req) /\ PiiFree(policy, req)
            big     == { i \in DOMAIN req.messages :
                           StrLen(OrStr(req.messages[i].content, ""))
                               > policy.max_chars_per_message }
        IN  /\ ~WithinLimits(policy, req) => ~Admitted
            /\ (earlier /\ ~WithinLimits(policy, req)) =>
                 /\ Denied("policy_denied")
                 /\ last.resp.status = 403
                 /\ last.resp.details =
                      IF ~CountWithinLimit(policy, req)
                      THEN [limit |-> policy.max_messages]
                      ELSE IF ~ModelWithinPolicy(policy, req)
                      THEN [field |-> "model", value |-> req.model.s,
                            allowed |-> policy.allowed_models]
                      ELSE [index |-> FirstIdx(big) - 1,
                            limit |-> policy.max_chars_per_message]

\* witness of C8: three messages and a forbidden model, refused for the count
C8_Witness ==
    /\ Denied("policy_denied")
    /\ Len(last.req.messages) > policy.max_messages
    /\ ~ModelWithinPolicy(policy, last.req)
    /\ last.resp.details = [limit |-> policy.max_messages]

\* C9 as claimed: a malformed policy file or tenant manifest makes start-up
\* fail, so that the process never serves; and it never serves in a weaker
\* authentication mode than the files describe.
C9_ConfigErrorsFatal ==
    phase = "serving" =>
        /\ ~PolicyFileMalformed(policyFile)
        /\ ~TenantsFileMalformed(tenantsFile)
        /\ tenantsFile = ValidManifest => registry.loaded

\* the rate windows are as they were before the last request
WindowsUntouched ==
    /\ ~last.resp.rate_called
    /\ requests_by_tenant = last.before.reqs
    /\ tokens_by_tenant = last.before.toks

\* the header is there and reads "Bearer " followed by the token
StartsWithBearer(authorization) == authorization.present /\ authorization.prefix = "Bearer "

\* C17: with a registry, a request without an Authorization header or with one
\* that does not start with "Bearer " is denied unauthorized (401) with details
\* {"header": "Authorization"}; one whose token is empty after trimming is
\* denied unauthorized (401); in both cases no rate window is read or changed.
C17_MissingOrEmptyBearer ==
    (InPipeline /\ registry.loaded) =>
        /\ ~StartsWithBearer(last.req.authorization) =>
               /\ Denied("unauthorized") /\ last.resp.status = 401
               /\ last.resp.details = [header |-> "Authorization"]
               /\ WindowsUntouched
        /\ ( /\ StartsWithBearer(last.req.authorization)
             /\ Strip(last.req.authorization.rest) = "" ) =>
               /\ Denied("unauthorized") /\ last.resp.status = 401
               /\ WindowsUntouched

\* witness of C17: a request with a blank bearer token was refused while tenant
\* A had a request in its window
C17_Witness ==
    /\ InPipeline /\ registry.loaded
    /\ last.req.authorization = Bearer(" ")
    /\ Denied("unauthorized")
    /\ requests_by_tenant["tenantA"] # << >>

\* C18: with a registry a request passes authentication only with the key of an
\* enabled tenant, whatever the legacy key is; without a registry but with a
\* legacy key it passes exactly when its bearer token equals that key; with
\* neither, every request passes; and without a registry no rate window is read
\* or changed and no usage is recorded.
C18_AuthModes ==
    InPipeline =>
        LET auth  == last.req.authorization
            token == Strip(auth.rest)
        IN  /\ registry.loaded =>
                (Denied("unauthorized") <=> (MissingBearer(auth) \/ EnabledHolders(token) = {}))
            /\ (~registry.loaded /\ legacy_api_key # "") =>
                (Denied("unauthorized") <=> (MissingBearer(auth) \/ token # legacy_api_key))
            /\ (~registry.loaded /\ legacy_api_key = "") => ~Denied("unauthorized")
            /\ ~registry.loaded =>
                /\ WindowsUntouched
                /\ ~last.resp.usage_recorded
                /\ ~Denied("rate_limited")

\* witness of C18: with a registry and a legacy key configured, the legacy key
\* itself was refused
C18_Witness ==
    /\ InPipeline /\ registry.loaded
    /\ legacy_api_key = "legacy"
    /\ last.req.authorization = Bearer("legacy")
    /\ Denied("unauthorized")

\* the timestamps of a history of (timestamp, tokens) pairs
Stamps(h) == [j \in DOMAIN h |-> h[j][1]]

\* the tokens of history h recorded in the interval (t - 86400, t]
RECURSIVE TokensIn(_, _)
TokensIn(h, t) ==
    IF h = << >> THEN 0
    ELSE (IF Head(h)[1] > t - TPD_WINDOW /\ Head(h)[1] <= t THEN Head(h)[2] ELSE 0)
             + TokensIn(Tail(h), t)

\* the usage recorded for the last request's tenant before that request
RecordedBefore ==
    LET h == recorded[last.resp.tenant_id]
    IN  IF last.resp.usage_recorded THEN SubSeq(h, 1, Len(h) - 1) ELSE h

\* the last request authenticated as a tenant and came to the rate check
TenantChecked == InPipeline /\ last.resp.authenticated /\ last.resp.rate_called

\* what the claim calls the remaining quota, from the histories of the calls
ExpectedRpm ==
    LET n == LastTenant.rate_limit_rpm - CountIn(allowed_calls[last.resp.tenant_id], last.now)
    IN  IF n < 0 THEN 0 ELSE n
ExpectedTpd ==
    LET n == LastTenant.rate_limit_tpd - TokensIn(RecordedBefore, last.now)
    IN  IF n < 0 THEN 0 ELSE n

C30_RoutingWithinPolicy ==
    (InPipeline /\ Admitted) =>
        /\ last.resp.provider = policy.allowed_providers[1]
        /\ \E i \in DOMAIN policy.allowed_providers :
              policy.allowed_providers[i] = last.resp.provider
        /\ last.resp.audit[1].provider = last.resp.provider
        /\ last.resp.audit[1].model = last.resp.model
        /\ (\A i \in DOMAIN policy.allowed_models : policy.allowed_models[i] # "*") =>
              \E i \in DOMAIN policy.allowed_models :
                  policy.allowed_models[i] = last.resp.model

\* the values the X-ZeroVeil-Tenant header can take
Hints == { NoneStr, Str(""), Str("tenantA"), Str("tenantB"), Str("nobody") }

\* the last request again, from the same state, with another tenant hint
Sibling(h) ==
    chat_completions(policy, registry, legacy_api_key, last.before.reqs,
                     last.before.toks, [last.req EXCEPT !.x_zeroveil_tenant = h],
                     last.now)

\* C31: with a registry, the tenant hint has no effect after authentication:
\* the same request with any other hint gets the same answer, leaves the
\* same windows and, once a tenant is authenticated, writes the same audit
\* event; the tenant checked, charged and named in the event is the
\* authenticated tenant, and only the windows of that tenant change.  The
\* hint is the tenant id of an event only when the request was denied
\* before a tenant was authenticated.
C31_HintHasNoEffect ==
    (InPipeline /\ registry.loaded) =>
        LET token   == Strip(last.req.authorization.rest)
            holders == EnabledHolders(token)
            event   == last.resp.audit[1]
        IN  /\ \A h \in Hints :
                 LET r == Sibling(h)
                 IN  /\ r.status = last.resp.status
                     /\ r.code = last.resp.code
                     /\ r.details = last.resp.details
                     /\ r.headers = last.resp.headers
                     /\ r.rate_called = last.resp.rate_called
                     /\ r.rate_ok = last.resp.rate_ok
                     /\ r.usage_recorded = last.resp.usage_recorded
                     /\ r.reqs = requests_by_tenant
                     /\ r.toks = tokens_by_tenant
                     /\ last.resp.authenticated =>
                           /\ r.tenant_id = last.resp.tenant_id
                           /\ r.audit = last.resp.audit
            /\ last.resp.authenticated =>
                 /\ \E i \in holders :
                       registry.tenants[i].tenant_id = last.resp.tenant_id
                 /\ event.tenant_id = last.resp.tenant_id
                 /\ \A t \in TenantIds \ { last.resp.tenant_id } :
                       /\ requests_by_tenant[t] = last.before.reqs[t]
                       /\ tokens_by_tenant[t] = last.before.toks[t]
            /\ ~last.resp.authenticated =>
                 /\ Denied("unauthorized")
                 /\ event.tenant_id = OrStr(last.req.x_zeroveil_tenant, "default")
                 /\ requests_by_tenant = last.before.reqs
                 /\ tokens_by_tenant = last.before.toks

\* witness of C31: tenant A's key sent with the hint "tenantB" was answered
\* rate_limited, and the deny event names tenant A
C31_Witness ==
    /\ InPipeline /\ registry.loaded
    /\ Denied("rate_limited")
    /\ last.req.x_zeroveil_tenant = Str("tenantB")
    /\ last.resp.tenant_id = "tenantA"
    /\ last.resp.audit[1].tenant_id = "tenantA"

\* window `after` is window `before` without some of its oldest entries
LeftPruned(before, after) ==
    /\ Len(after) <= Len(before)
    /\ after = SubSeq(before, Len(before) - Len(after) + 1, Len(before))

\* the entries of an RPM window that have not expired at time now
StillInWindow(dq, now) == SelectSeq(dq, LAMBDA x : x > now - RPM_WINDOW)

\* the last request's tenant passed the rate check
PassedRateCheck == InPipeline /\ last.resp.authenticated /\ last.resp.rate_ok

\* no window has gained an entry during the last request
NoSlotConsumed ==
    \A t \in TenantIds : LeftPruned(last.before.reqs[t], requests_by_tenant[t])

\* the last request's tenant has one entry more, stamped with the time of
\* the request, and no other tenant's window changed
OneSlotConsumed ==
    /\ requests_by_tenant[last.resp.tenant_id]
          = Append(StillInWindow(last.before.reqs[last.resp.tenant_id], last.now), last.now)
    /\ \A t \in TenantIds \ { last.resp.tenant_id } :
          requests_by_tenant[t] = last.before.reqs[t]

\* C36, as stated: every tenant-authenticated request that passes the rate
\* check consumes exactly one RPM slot of its tenant, admitted or not; a
\* request denied at authentication or at the rate check consumes none.
C36_RateCheckCharges ==
    (InPipeline /\ registry.loaded) =>
        IF PassedRateCheck THEN OneSlotConsumed ELSE NoSlotConsumed

\* C36, amended: a request that passes the rate check of a tenant with
\* rateLimitRPM > 0 consumes exactly one RPM slot, whether it is then
\* admitted or denied by a later check; for a tenant with rateLimitRPM = 0
\* the rate check writes no entry; a request denied at authentication or at
\* the rate check, or answered before the pipeline, consumes none.
C36_RateCheckChargesLimited ==
    (Responded /\ registry.loaded) =>
        IF PassedRateCheck /\ LastTenant.rate_limit_rpm > 0
        THEN /\ OneSlotConsumed
             /\ last.resp.status \in { 200, 400, 403 }
        ELSE /\ NoSlotConsumed
             /\ PassedRateCheck => requests_by_tenant = last.before.reqs
             /\ ~PassedRateCheck => last.resp.status \in { 400, 401, 429 }

\* witness of C36: a request of tenant A passed the rate check, took the
\* second slot of the window and was then denied by the policy
C36_Witness ==
    /\ PassedRateCheck
    /\ Denied("policy_denied")
    /\ last.resp.tenant_id = "tenantA"
    /\ Len(last.before.reqs["tenantA"]) = 1
    /\ requests_by_tenant["tenantA"] = << 0, 0 >>

(***************************************************************************)
(* SpecConc: worker threads of the server inside check_rate_limit and      *)
(* record_usage of the one registry create_app built.  The code takes no   *)
(* lock, so a thread can be switched out between any two operations on the *)
(* shared deques; each action below is one such operation (the test        *)
(* `dq and dq[0] <= window_start` taken as one).                           *)
(***************************************************************************)
Threads == 1 .. NThreads

IdleThread == [pc |-> "idle", tenant_id |-> "tenantA", now |-> 0, for |-> "check",
               result |-> FALSE, n |-> 0]

ThreadTenant(t) == GetTenant(registry.tenants, thr[t].tenant_id)

InitConc ==
    /\ phase = "serving"
    /\ policyFile = [kind |-> "object", data |-> StrictPolicy]
    /\ tenantsFile = ValidManifest
    /\ legacy_api_key = ""
    /\ policy = Policy_load([kind |-> "object", data |-> StrictPolicy]).policy
    /\ registry = [loaded |-> TRUE, tenants |-> TenantRegistry_load(ValidManifest).tenants]
    /\ clock = 0
    /\ ticks = 0
    /\ requests_by_tenant = EmptyWindows
    /\ tokens_by_tenant = EmptyWindows
    /\ allowed_calls = EmptyWindows
    /\ last = NoLast
    /\ thr = [t \in Threads |-> IdleThread]
    /\ AuditIdle
    /\ HistIdle

ConcFrame == UNCHANGED << configVars, last, auditVars, histVars >>

\* the wall clock moves on by half a minute or by a day
ConcTick ==
    /\ ticks < MaxTicks
    /\ ticks' = ticks + 1
    /\ \E d \in { TickStep, TPD_WINDOW } : clock' = clock + d
    /\ UNCHANGED << requests_by_tenant, tokens_by_tenant, allowed_calls, thr >>
    /\ ConcFrame

\* what check_rate_limit does once the TPD test has passed (lines 181-184)
AfterTpd(t, tenant) ==
    IF tenant.rate_limit_rpm = 0
    THEN /\ thr' = [thr EXCEPT ![t].pc = "returned", ![t].result = TRUE]
         /\ allowed_calls' = [allowed_calls EXCEPT ![tenant.tenant_id] = Append(@, thr[t].now)]
    ELSE /\ thr' = [thr EXCEPT ![t].pc = "req_test"]
         /\ UNCHANGED allowed_calls

\* check_rate_limit, lines 170-179: tenant lookup, now = self._now(), and the
\* entry into tpd_remaining (which reads the clock again)
crl_enter(t) ==
    /\ thr[t].pc = "idle"
    /\ thr[t].n < MaxConcCalls
    /\ \E tid \in TenantIds :
         LET tenant == GetTenant(registry.tenants, tid)
             me     == [thr[t] EXCEPT !.tenant_id = tid, !.now = clock, !.for = "check",
                                      !.n = @ + 1]
         IN  IF tenant = NoTenant \/ ~tenant.enabled
             THEN /\ thr' = [thr EXCEPT ![t] = [me EXCEPT !.pc = "returned", !.result = FALSE]]
                  /\ UNCHANGED allowed_calls
             ELSE IF tenant.rate_limit_tpd # 0
             THEN /\ thr' = [thr EXCEPT ![t] = [me EXCEPT !.pc = "tok_test"]]
                  /\ UNCHANGED allowed_calls
             ELSE IF tenant.rate_limit_rpm = 0
             THEN /\ thr' = [thr EXCEPT ![t] = [me EXCEPT !.pc = "returned", !.result = TRUE]]
                  /\ allowed_calls' = [allowed_calls EXCEPT ![tid] = Append(@, clock)]
             ELSE /\ thr' = [thr EXCEPT ![t] = [me EXCEPT !.pc = "req_test"]]
                  /\ UNCHANGED allowed_calls
    /\ UNCHANGED << clock, ticks, requests_by_tenant, tokens_by_tenant >>
    /\ ConcFrame

\* _prune_tokens, line 142: `while dq and dq[0][0] <= window_start`
prune_tokens_test(t) ==
    /\ thr[t].pc = "tok_test"
    /\ LET dq == tokens_by_tenant[thr[t].tenant_id]
       IN  thr' = [thr EXCEPT ![t].pc =
                      IF dq # << >> /\ Head(dq)[1] <= thr[t].now - TPD_WINDOW
                      THEN "tok_pop"
                      ELSE IF thr[t].for = "check" THEN "tok_sum" ELSE "tok_append"]
    /\ UNCHANGED << clock, ticks, requests_by_tenant, tokens_by_tenant, allowed_calls >>
    /\ ConcFrame

\* _prune_tokens, line 143: dq.popleft() (IndexError on an empty deque)
prune_tokens_pop(t) ==
    /\ thr[t].pc = "tok_pop"
    /\ LET dq == tokens_by_tenant[thr[t].tenant_id]
       IN  IF dq = << >>
           THEN /\ thr' = [thr EXCEPT ![t].pc = "raised"]
                /\ UNCHANGED tokens_by_tenant
           ELSE /\ thr' = [thr EXCEPT ![t].pc = "tok_test"]
                /\ tokens_by_tenant' = [tokens_by_tenant EXCEPT ![thr[t].tenant_id] = Tail(dq)]
    /\ UNCHANGED << clock, ticks, requests_by_tenant, allowed_calls >>
    /\ ConcFrame

\* tpd_remaining, lines 166-167, and check_rate_limit, lines 178-182
crl_tpd_sum(t) ==
    /\ thr[t].pc = "tok_sum"
    /\ LET tenant    == ThreadTenant(t)
           used      == SumTokens(tokens_by_tenant[thr[t].tenant_id])
           remaining == Max(0, tenant.rate_limit_tpd - used)
       IN  IF remaining <= 0
           THEN /\ thr' = [thr EXCEPT ![t].pc = "returned", ![t].result = FALSE]
                /\ UNCHANGED allowed_calls
           ELSE AfterTpd(t, tenant)
    /\ UNCHANGED << clock, ticks, requests_by_tenant, tokens_by_tenant >>
    /\ ConcFrame

\* _prune_requests, line 135: `while dq and dq[0] <= window_start`
prune_requests_test(t) ==
    /\ thr[t].pc = "req_test"
    /\ LET dq == requests_by_tenant[thr[t].tenant_id]
       IN  thr' = [thr EXCEPT ![t].pc =
                      IF dq # << >> /\ Head(dq) <= thr[t].now - RPM_WINDOW
                      THEN "req_pop" ELSE "req_len"]
    /\ UNCHANGED << clock, ticks, requests_by_tenant, tokens_by_tenant, allowed_calls >>
    /\ ConcFrame

\* _prune_requests, line 136: dq.popleft() (IndexError on an empty deque)
prune_requests_pop(t) ==
    /\ thr[t].pc = "req_pop"
    /\ LET dq == requests_by_tenant[thr[t].tenant_id]
       IN  IF dq = << >>
           THEN /\ thr' = [thr EXCEPT ![t].pc = "raised"]
                /\ UNCHANGED requests_by_tenant
           ELSE /\ thr' = [thr EXCEPT ![t].pc = "req_test"]
                /\ requests_by_tenant' =
                       [requests_by_tenant EXCEPT ![thr[t].tenant_id] = Tail(dq)]
    /\ UNCHANGED << clock, ticks, tokens_by_tenant, allowed_calls >>
    /\ ConcFrame

\* check_rate_limit, lines 185-186: `if len(dq) >= tenant.rate_limit_rpm: return False`
crl_len(t) ==
    /\ thr[t].pc = "req_len"
    /\ thr' = IF RpmLimitReached(requests_by_tenant[thr[t].tenant_id], ThreadTenant(t))
              THEN [thr EXCEPT ![t].pc = "returned", ![t].result = FALSE]
              ELSE [thr EXCEPT ![t].pc = "req_append"]
    /\ UNCHANGED << clock, ticks, requests_by_tenant, tokens_by_tenant, allowed_calls >>
    /\ ConcFrame

\* check_rate_limit, lines 187-188: dq.append(now); return True
crl_append(t) ==
    /\ thr[t].pc = "req_append"
    /\ requests_by_tenant' =
           [requests_by_tenant EXCEPT ![thr[t].tenant_id] = Append(@, thr[t].now)]
    /\ allowed_calls' = [allowed_calls EXCEPT ![thr[t].tenant_id] = Append(@, thr[t].now)]
    /\ thr' = [thr EXCEPT ![t].pc = "returned", ![t].result = TRUE]
    /\ UNCHANGED << clock, ticks, tokens_by_tenant >>
    /\ ConcFrame

\* chat_completions after the rate check: a refused request is denied (app.py
\* 134-144); an admitted one is answered and record_usage(tenant_id, 0) is
\* called, lines 190-199
crl_return(t) ==
    /\ thr[t].pc = "returned"
    /\ thr' = IF thr[t].result /\ ThreadTenant(t).rate_limit_tpd # 0
              THEN [thr EXCEPT ![t].pc = "tok_test", ![t].for = "record", ![t].now = clock]
              ELSE [thr EXCEPT ![t].pc = "idle"]
    /\ UNCHANGED << clock, ticks, requests_by_tenant, tokens_by_tenant, allowed_calls >>
    /\ ConcFrame

\* record_usage, line 201: dq.append((now, tokens))
ru_append(t) ==
    /\ thr[t].pc = "tok_append"
    /\ tokens_by_tenant' =
           [tokens_by_tenant EXCEPT ![thr[t].tenant_id] = Append(@, << thr[t].now, 0 >>)]
    /\ thr' = [thr EXCEPT ![t].pc = "idle"]
    /\ UNCHANGED << clock, ticks, requests_by_tenant, allowed_calls >>
    /\ ConcFrame

crl_enter_any == \E t \in Threads : crl_enter(t)
prune_tokens_test_any == \E t \in Threads : prune_tokens_test(t)
prune_tokens_pop_any == \E t \in Threads : prune_tokens_pop(t)
crl_tpd_sum_any == \E t \in Threads : crl_tpd_sum(t)
prune_requests_test_any == \E t \in Threads : prune_requests_test(t)
prune_requests_pop_any == \E t \in Threads : prune_requests_pop(t)
crl_len_any == \E t \in Threads : crl_len(t)
crl_append_any == \E t \in Threads : crl_append(t)
crl_return_any == \E t \in Threads : crl_return(t)
ru_append_any == \E t \in Threads : ru_append(t)

NextConc ==
    \/ ConcTick
    \/ crl_enter_any
    \/ prune_tokens_test_any
    \/ prune_tokens_pop_any
    \/ crl_tpd_sum_any
    \/ prune_requests_test_any
    \/ prune_requests_pop_any
    \/ crl_len_any
    \/ crl_append_any
    \/ crl_return_any
    \/ ru_append_any

SpecConc == InitConc /\ [][NextConc]_vars

\* C2: under every interleaving of concurrent check_rate_limit calls of one
\* tenant with rateLimitRPM = N > 0, no more than N calls that returned true lie
\* in the 60-second window that ends at any of them.
C2_RateCheckAtomic ==
    \A i \in DOMAIN registry.tenants :
        LET tenant == registry.tenants[i]
            h      == allowed_calls[tenant.tenant_id]
        IN  tenant.rate_limit_rpm > 0 =>
              \A j \in DOMAIN h : CountIn(h, h[j]) <= tenant.rate_limit_rpm

(***************************************************************************)
(* SpecAudit: worker threads of the server inside AuditLogger.log on the   *)
(* one logger create_app built.  The code takes no lock, so a thread can   *)
(* be switched out between any two file-system calls; each action below is *)
(* one such call.  A file is an inode holding the event lines written to   *)
(* it; files[0] is the log path and files[i] is path.i.  The size limit    *)
(* max_size_mb is counted in lines; the clock stands still in SpecAudit,   *)
(* so no file grows older than max_age_days there.                         *)
(***************************************************************************)
RetentionConfig == [max_size_lines |-> RotateAtLines, max_age_days |-> DEFAULT_MAX_AGE_DAYS,
                    rotate_count |-> RotateCount]

SECONDS_PER_DAY == 86400

Slots == 0 .. RetentionConfig.rotate_count

\* dir0 remembers the directory as it was when the size test decided to rotate
IdleWriter == [pc |-> "idle", ev |-> 0, i |-> 0, fd |-> 0, dir0 |-> << >>]

\* a mutation of Replace: the source loses its name and the destination gets none
Replace_Unlinks(dir, src, dst) == [dir EXCEPT ![src] = 0]

\* a mutation of Replace: the two names exchange their files
Replace_Swaps(dir, src, dst) == [dir EXCEPT ![dst] = dir[src], ![src] = dir[dst]]

\* os.replace(src, dst) on the directory: the inode that dst named loses its name
Replace(dir, src, dst) == [dir EXCEPT ![dst] = dir[src], ![src] = 0]

\* the inodes after os.replace took the name dst away from one of them
Unlinked(nodes, dir, dst) ==
    IF dir[dst] = 0 THEN nodes
    ELSE [nodes EXCEPT ![dir[dst]].unlinked_at = dst]

InitAudit ==
    /\ phase = "serving"
    /\ policyFile \in { [kind |-> "object", data |-> StrictPolicy],
                        [kind |-> "object", data |-> LenientPolicy] }
    /\ tenantsFile = [kind |-> "missing"]
    /\ legacy_api_key = ""
    /\ policy = Policy_load(policyFile).policy
    /\ registry = NoRegistry
    /\ clock = 0
    /\ ticks = 0
    /\ requests_by_tenant = EmptyWindows
    /\ tokens_by_tenant = EmptyWindows
    /\ allowed_calls = EmptyWindows
    /\ last = NoLast
    /\ ConcIdle
    /\ files = [k \in Slots |-> 0]
    /\ inodes = << >>
    /\ athr = [t \in Threads |-> IdleWriter]
    /\ logged = 0
    /\ stdout = << >>
    /\ _retention = RetentionConfig
    /\ HistIdle

AuditFrame == UNCHANGED << gatewayVars, concVars, stdout, _retention, histVars >>

\* AuditLogger.log, lines 81-89: an event is handed to log; the stdout sink
\* prints it and a logger without a path drops it
log_enter(t) ==
    /\ athr[t].pc = "idle"
    /\ logged < MaxEvents
    /\ logged' = logged + 1
    /\ stdout' = IF policy.logging_sink = "stdout" THEN Append(stdout, logged + 1) ELSE stdout
    /\ athr' = IF policy.logging_sink = "stdout" \/ policy.logging_path = ""
               THEN athr
               ELSE [athr EXCEPT ![t].pc = "stat", ![t].ev = logged + 1]
    /\ UNCHANGED << files, inodes >>
    /\ UNCHANGED << gatewayVars, concVars, _retention, histVars >>

\* _maybe_rotate, line 112: range(cfg.rotate_count - 1, 0, -1) starts here
ShiftStart_SkipsOne(rotate_count) == rotate_count - 2

ShiftStart(rotate_count) == rotate_count - 1

\* a mutation of rotate_stat: the configuration guard is gone
rotate_stat_NoGuard(t) ==
    /\ athr[t].pc = "stat"
    /\ athr' = IF files[0] = 0
               THEN [athr EXCEPT ![t].pc = "open"]
               ELSE IF Len(inodes[files[0]].lines) < _retention.max_size_lines
               THEN [athr EXCEPT ![t].pc = "open"]
               ELSE [athr EXCEPT ![t].pc = "shift_exists",
                                 ![t].i = ShiftStart(_retention.rotate_count),
                                 ![t].dir0 = files]
    /\ UNCHANGED << files, inodes, logged >>
    /\ AuditFrame

\* _maybe_rotate, lines 98-109: the configuration guard, path.stat() and the
\* size test
rotate_stat(t) ==
    /\ athr[t].pc = "stat"
    /\ athr' = IF _retention.rotate_count <= 0 \/ _retention.max_size_lines <= 0
               THEN [athr EXCEPT ![t].pc = "open"]
               ELSE IF files[0] = 0
               THEN [athr EXCEPT ![t].pc = "open"]
               ELSE IF Len(inodes[files[0]].lines) < _retention.max_size_lines
               THEN [athr EXCEPT ![t].pc = "open"]
               ELSE [athr EXCEPT ![t].pc = "shift_exists",
                                 ![t].i = ShiftStart(_retention.rotate_count),
                                 ![t].dir0 = files]
    /\ UNCHANGED << files, inodes, logged >>
    /\ AuditFrame

\* _maybe_rotate, lines 112-115: the loop head and `if src.exists()`
rotate_shift_exists(t) ==
    /\ athr[t].pc = "shift_exists"
    /\ athr' = IF athr[t].i <= 0
               THEN [athr EXCEPT ![t].pc = "replace"]
               ELSE IF files[athr[t].i] # 0
               THEN [athr EXCEPT ![t].pc = "shift_replace"]
               ELSE [athr EXCEPT ![t].i = @ - 1]
    /\ UNCHANGED << files, inodes, logged >>
    /\ AuditFrame

\* _maybe_rotate, line 116: os.replace(src, dst); FileNotFoundError when src
\* is gone
rotate_shift_replace(t) ==
    /\ athr[t].pc = "shift_replace"
    /\ LET i == athr[t].i
       IN  IF files[i] = 0
           THEN /\ athr' = [athr EXCEPT ![t].pc = "failed"]
                /\ UNCHANGED << files, inodes >>
           ELSE /\ files' = Replace(files, i, i + 1)
                /\ inodes' = Unlinked(inodes, files, i + 1)
                /\ athr' = [athr EXCEPT ![t].pc = "shift_exists", ![t].i = i - 1]
    /\ UNCHANGED logged
    /\ AuditFrame

\* _maybe_rotate, line 119: os.replace(path, path.1); FileNotFoundError when
\* path is gone
rotate_replace(t) ==
    /\ athr[t].pc = "replace"
    /\ IF files[0] = 0
       THEN /\ athr' = [athr EXCEPT ![t].pc = "failed"]
            /\ UNCHANGED << files, inodes >>
       ELSE /\ files' = Replace(files, 0, 1)
            /\ inodes' = Unlinked(inodes, files, 1)
            /\ athr' = [athr EXCEPT ![t].pc = "cleanup"]
    /\ UNCHANGED logged
    /\ AuditFrame

\* _cleanup_rotated_files, lines 134-137: int(suffix) of a name the glob
\* `path.*` matched; names 1, 2, ... are path.1, path.2, ... and name -1 is
\* path.bak, whose suffix makes int() raise ValueError
SuffixIsInt(k) == k >= 1

\* a mutation of TooOld: no file is ever too old
TooOld_Never(mtime, now, max_age_days) == FALSE

\* _cleanup_rotated_files, lines 128 and 148-157: the age test
TooOld(mtime, now, max_age_days) ==
    max_age_days > 0 /\ mtime < now - max_age_days * SECONDS_PER_DAY

\* a mutation of CleanupUnlinks: `idx >= cfg.rotate_count`
CleanupUnlinks_FromCount(k, mtime) ==
    /\ _retention.rotate_count > 0
    /\ SuffixIsInt(k)
    /\ \/ k >= _retention.rotate_count
       \/ TooOld(mtime, clock, _retention.max_age_days)

\* _cleanup_rotated_files, lines 131-160: does the pass unlink the file named k?
CleanupUnlinks(k, mtime) ==
    /\ _retention.rotate_count > 0
    /\ SuffixIsInt(k)
    /\ \/ k > _retention.rotate_count
       \/ TooOld(mtime, clock, _retention.max_age_days)

\* _cleanup_rotated_files, lines 123-160: unlinks path.k for k > rotate_count
\* and files older than max_age_days
rotate_cleanup(t) ==
    /\ athr[t].pc = "cleanup"
    /\ LET doomed == { k \in DOMAIN files : files[k] # 0 /\ CleanupUnlinks(k, inodes[files[k]].mtime) }
       IN  /\ files' = [k \in DOMAIN files |-> IF k \in doomed THEN 0 ELSE files[k]]
           /\ inodes' = [n \in DOMAIN inodes |->
                           IF \E k \in doomed : files[k] = n
                           THEN [inodes[n] EXCEPT !.unlinked_at = _retention.rotate_count]
                           ELSE inodes[n]]
    /\ athr' = [athr EXCEPT ![t].pc = "open"]
    /\ UNCHANGED logged
    /\ AuditFrame

\* log, line 94: p.open("a") opens the file the path names now, or creates it
log_open(t) ==
    /\ athr[t].pc = "open"
    /\ IF files[0] = 0
       THEN /\ inodes' = Append(inodes, [lines |-> << >>, unlinked_at |-> 0, mtime |-> clock])
            /\ files' = [files EXCEPT ![0] = Len(inodes) + 1]
            /\ athr' = [athr EXCEPT ![t].pc = "write", ![t].fd = Len(inodes) + 1]
       ELSE /\ athr' = [athr EXCEPT ![t].pc = "write", ![t].fd = files[0]]
            /\ UNCHANGED << files, inodes >>
    /\ UNCHANGED logged
    /\ AuditFrame

\* a mutation of log_write: the file is written from its start
log_write_Truncates(t) ==
    /\ athr[t].pc = "write"
    /\ inodes' = [inodes EXCEPT ![athr[t].fd].lines = << athr[t].ev >>,
                                ![athr[t].fd].mtime = clock]
    /\ athr' = [athr EXCEPT ![t] = IdleWriter]
    /\ UNCHANGED << files, logged >>
    /\ AuditFrame

\* log, line 95: f.write(line + "\n") and the close of the file
log_write(t) ==
    /\ athr[t].pc = "write"
    /\ inodes' = [inodes EXCEPT ![athr[t].fd].lines = Append(@, athr[t].ev),
                                ![athr[t].fd].mtime = clock]
    /\ athr' = [athr EXCEPT ![t] = IdleWriter]
    /\ UNCHANGED << files, logged >>
    /\ AuditFrame

NextAudit ==
    \/ \E t \in Threads : log_enter(t)
    \/ \E t \in Threads : rotate_stat(t)
    \/ \E t \in Threads : rotate_shift_exists(t)
    \/ \E t \in Threads : rotate_shift_replace(t)
    \/ \E t \in Threads : rotate_replace(t)
    \/ \E t \in Threads : rotate_cleanup(t)
    \/ \E t \in Threads : log_open(t)
    \/ \E t \in Threads : log_write(t)

SpecAudit == InitAudit /\ [][NextAudit]_vars

InRotation(t) == athr[t].pc \in { "shift_exists", "shift_replace", "replace", "cleanup" }
InAppend(t) == athr[t].pc = "write"

\* no rotation's rename sequence overlaps another call's append or rotation
NoOverlap ==
    \A t1, t2 \in DOMAIN athr :
        t1 # t2 /\ InRotation(t1) => ~InRotation(t2) /\ ~InAppend(t2)

\* no call has failed with FileNotFoundError
NoFailedCall == \A t \in DOMAIN athr : athr[t].pc # "failed"

\* every line written is in a file the directory still names, or in a file that
\* left the directory from the last retained slot
NoLineLost ==
    \A n \in DOMAIN inodes :
        inodes[n].lines # << >> =>
            \/ \E k \in DOMAIN files : files[k] = n
            \/ inodes[n].unlinked_at = _retention.rotate_count

\* C10: under every interleaving of concurrent AuditLogger.log calls on one
\* jsonl path, no rotation overlaps another call's append or rotation, no call
\* fails because another call renamed the file, and no written line is lost by
\* a rename that overwrites a freshly rotated file.
C10_AuditWritesSerialized == NoOverlap /\ NoFailedCall /\ NoLineLost

(***************************************************************************)
(* SpecRotate: one writer calling AuditLogger.log on a logger constructed  *)
(* with a retention configuration, in a directory that already holds some  *)
(* files, while days pass.  The actions are those of SpecAudit, taken by    *)
(* writer 1 alone; every state between two of them is a point where the    *)
(* process can stop.                                                       *)
(***************************************************************************)
Writer == 1

\* the names in the log directory: -1 is path.bak, 0 is path, k is path.k
Names == -1 .. RotateCount + 1

RetentionConfigs ==
    { [max_size_lines |-> x, max_age_days |-> d, rotate_count |-> r] :
          x \in { 0, RotateAtLines }, d \in { 0, MaxAgeDays }, r \in 0 .. RotateCount }

\* the files that exist before the first call: each holds one line and was
\* last written at time 0
RECURSIVE OldInodes(_)
OldInodes(names) ==
    IF names = {} THEN << >>
    ELSE LET k == CHOOSE x \in names : \A y \in names : x >= y
         IN  Append(OldInodes(names \ {k}),
                    [lines |-> << 100 + k >>, unlinked_at |-> 0, mtime |-> 0])

\* the directory that names them: the j-th smallest name gets inode j
OldDirectory(names) ==
    [k \in Names |-> IF k \in names THEN Cardinality({ x \in names : x <= k }) ELSE 0]

InitRotate ==
    /\ phase = "serving"
    /\ policyFile \in { [kind |-> "object", data |-> LenientPolicy],
                        [kind |-> "object", data |-> StrictPolicy] }
    /\ tenantsFile = [kind |-> "missing"]
    /\ legacy_api_key = ""
    /\ policy = Policy_load(policyFile).policy
    /\ registry = NoRegistry
    /\ clock = 0
    /\ ticks = 0
    /\ requests_by_tenant = EmptyWindows
    /\ tokens_by_tenant = EmptyWindows
    /\ allowed_calls = EmptyWindows
    /\ last = NoLast
    /\ ConcIdle
    /\ \E names \in SUBSET Names :
         /\ files = OldDirectory(names)
         /\ inodes = OldInodes(names)
    /\ athr = [t \in { Writer } |-> IdleWriter]
    /\ logged = 0
    /\ stdout = << >>
    /\ _retention \in RetentionConfigs
    /\ HistIdle

\* a day passes
TickDay ==
    /\ ticks < MaxDays
    /\ ticks' = ticks + 1
    /\ clock' = clock + SECONDS_PER_DAY
    /\ UNCHANGED << configVars, requests_by_tenant, tokens_by_tenant, allowed_calls, last >>
    /\ UNCHANGED << concVars, auditVars, histVars >>

NextRotate ==
    \/ TickDay
    \/ log_enter(Writer)
    \/ rotate_stat(Writer)
    \/ rotate_shift_exists(Writer)
    \/ rotate_shift_replace(Writer)
    \/ rotate_replace(Writer)
    \/ rotate_cleanup(Writer)
    \/ log_open(Writer)
    \/ log_write(Writer)

SpecRotate == InitRotate /\ [][NextRotate]_vars

RotationEnabled == _retention.max_size_lines > 0 /\ _retention.rotate_count >= 1

\* the writer's position and the directory its rotation started from
WriterAt(pc) == athr[Writer].pc = pc
Dir0 == athr[Writer].dir0
Rotated == Dir0 # << >>

\* the shift loop has moved every path.i that existed to path.(i+1)
Shifted ==
    \A i \in 1 .. _retention.rotate_count - 1 : Dir0[i] # 0 => files[i + 1] = Dir0[i]

\* C11: with rotation enabled and one writer, a call never appends to an active
\* file that is at or above the size limit; when the active file is renamed to
\* path.1 every path.i (i from R-1 down to 1) has already been renamed to
\* path.(i+1); and after the cleanup pass of the rotation no path.(R+1) or
\* higher exists.
C11_RotationOrder ==
    RotationEnabled =>
        /\ (WriterAt("open") \/ WriterAt("write")) =>
               \/ files[0] = 0
               \/ Len(inodes[files[0]].lines) < _retention.max_size_lines
        /\ WriterAt("replace") => files[0] = Dir0[0] /\ Shifted
        /\ WriterAt("cleanup") => files[0] = 0 /\ files[1] = Dir0[0] /\ Shifted
        /\ (WriterAt("open") /\ Rotated) =>
               \A k \in DOMAIN files : k > _retention.rotate_count => files[k] = 0

\* witness of C11: with R = 2 a rotation has finished that moved the old path.1
\* to path.2, the active file to path.1, and deleted path.3
C11_Witness ==
    /\ _retention.rotate_count = 2
    /\ WriterAt("open") /\ Rotated
    /\ Dir0[1] # 0 /\ Dir0[3] # 0
    /\ files[2] = Dir0[1] /\ files[1] = Dir0[0] /\ files[3] = 0

\* the writer is inside a rotation that has not yet reached the end of cleanup
MidRotation ==
    WriterAt("shift_exists") \/ WriterAt("shift_replace") \/ WriterAt("replace")
        \/ WriterAt("cleanup")

\* C12: wherever a rotation stops before its cleanup has run, the file that was
\* the active log when the rotation began, with its lines, is still in the
\* directory, at the active path or at path.1.
C12_LiveLogSurvivesCrash ==
    MidRotation =>
        LET live == Dir0[0]
        IN  /\ live # 0
            /\ files[0] = live \/ files[1] = live
            /\ inodes[live].unlinked_at = 0
            /\ Len(inodes[live].lines) >= _retention.max_size_lines

\* witness of C12: the rotation stands between the rename of path.1 to path.2
\* and the rename of the active file
C12_Witness ==
    /\ WriterAt("replace")
    /\ Dir0[1] # 0 /\ files[2] = Dir0[1] /\ files[1] = 0
    /\ files[0] = Dir0[0]

\* the step that ends a rotation: the cleanup pass
CleanupStep == WriterAt("cleanup") /\ athr'[Writer].pc = "open"

\* the rotated files path.1 .. path.rotate_count
Retained == 1 .. _retention.rotate_count

\* no file path.k with k > rotate_count, and no path.k older than max_age_days
CleanDirectory ==
    /\ \A k \in DOMAIN files : (SuffixIsInt(k) /\ k > _retention.rotate_count) => files[k] = 0
    /\ _retention.max_age_days > 0 =>
           \A k \in DOMAIN files :
               (SuffixIsInt(k) /\ files[k] # 0) =>
                   inodes[files[k]].mtime >= clock - _retention.max_age_days * SECONDS_PER_DAY

\* C13: when a rotation completes, no file with a numeric suffix above
\* rotateCount exists and, if maxAgeDays > 0, no rotated file older than
\* maxAgeDays exists; with maxAgeDays = 0 the cleanup pass leaves every retained
\* rotated file in place; a file whose suffix is not a number is never deleted.
C13_CleanupRetention ==
    [][ /\ CleanupStep => CleanDirectory'
        /\ (CleanupStep /\ _retention.max_age_days = 0) =>
               \A k \in Retained : files'[k] = files[k]
        /\ files'[-1] = files[-1] ]_vars

\* witness of C13: a rotation has completed under maxAgeDays > 0; path.bak is
\* still there, path.2 has survived and the file that had just become path.1
\* was deleted for its age
C13_Witness ==
    /\ WriterAt("open") /\ Rotated
    /\ _retention.max_age_days > 0
    /\ files[-1] # 0
    /\ Dir0[3] # 0 /\ files[3] = 0
    /\ files[1] = 0

JsonlSink == policy.logging_sink = "jsonl"

\* the step that ends a call with the jsonl sink: the write to the opened file
WriteStep == WriterAt("write") /\ athr'[Writer].pc = "idle"

\* how often event e stands in the lines of a file
Occurrences(lines, e) == Cardinality({ i \in DOMAIN lines : lines[i] = e })

\* how often event e stands in the files written so far, the deleted ones included
Written_(e) ==
    LET RECURSIVE Sum(_)
        Sum(n) == IF n = 0 THEN 0 ELSE Occurrences(inodes[n].lines, e) + Sum(n - 1)
    IN  Sum(Len(inodes))

\* C25: with the jsonl sink the write of a log call goes to the file the path
\* names and puts the event after all lines of that file, so that the file
\* exists on return and its last line is the event; every call writes its
\* event once; no step changes or removes a line of any file, the files a
\* rotation renames or deletes included; with the stdout sink every call
\* prints one line and the directory and the files stay as they were.
C25_AppendOnly ==
    /\ [][ /\ (JsonlSink /\ WriteStep) =>
                 /\ files[0] # 0 /\ files'[0] = files[0]
                 /\ inodes'[files[0]].lines
                        = Append(inodes[files[0]].lines, athr[Writer].ev)
           /\ \A n \in DOMAIN inodes :
                 /\ n \in DOMAIN inodes'
                 /\ Len(inodes'[n].lines) >= Len(inodes[n].lines)
                 /\ SubSeq(inodes'[n].lines, 1, Len(inodes[n].lines)) = inodes[n].lines
           /\ ~JsonlSink => files' = files /\ inodes' = inodes ]_vars
    /\ []( (JsonlSink /\ WriterAt("idle")) =>
             /\ \A e \in 1 .. logged : Written_(e) = 1
             /\ stdout = << >> )
    /\ []( ~JsonlSink => stdout = [e \in 1 .. logged |-> e] )

\* witness of C25: a call has returned after putting its event behind the line
\* the active file held before
C25_Witness ==
    /\ JsonlSink /\ WriterAt("idle")
    /\ logged = 1
    /\ files[0] # 0
    /\ inodes[files[0]].lines = << 100, 1 >>

RotationOff == _retention.rotate_count = 0 \/ _retention.max_size_lines = 0

\* C28: with rotateCount = 0 or maxSizeMB = 0 no step of a log call renames or
\* deletes a file, whatever the active file holds and whatever rotated files
\* exist: every name keeps its file, the active path gets one only when it
\* had none, and the call goes from the size test straight to the append.
C28_RotationDisabled ==
    /\ [][ RotationOff =>
             /\ \A k \in DOMAIN files : (k # 0 \/ files[k] # 0) => files'[k] = files[k]
             /\ \A n \in DOMAIN inodes : inodes'[n].unlinked_at = inodes[n].unlinked_at
             /\ (JsonlSink /\ WriteStep) =>
                   inodes'[files[0]].lines
                      = Append(inodes[files[0]].lines, athr[Writer].ev) ]_vars
    /\ [](RotationOff => ~MidRotation /\ ~Rotated)

\* witness of C28: with rotation off a call has appended to an active file
\* that is over the size limit, next to a path.3 beyond every rotate count
C28_Witness ==
    /\ RotationOff /\ JsonlSink
    /\ WriterAt("idle")
    /\ files[0] # 0 /\ files[3] # 0
    /\ Len(inodes[files[0]].lines) > RotateAtLines
    /\ inodes[files[0]].lines[Len(inodes[files[0]].lines)] = logged

\* the file that was the active log when the rotation of this call began
Live == Dir0[0]

\* the age test of the cleanup pass, for the file last written at mtime
OlderThanMaxAge(mtime) ==
    /\ _retention.max_age_days > 0
    /\ clock - mtime > _retention.max_age_days * SECONDS_PER_DAY

\* C33, as stated: when a log call that rotated returns, path.1 is the file
\* that was active before the call, with the lines it held.
C33_RotationKeepsLiveLog ==
    [][ (JsonlSink /\ WriteStep /\ Rotated) =>
            /\ files'[1] = Live
            /\ inodes'[Live].lines = inodes[Live].lines
            /\ inodes'[Live].unlinked_at = 0 ]_vars

\* C33, amended: the cleanup pass of a rotation keeps the file it has just
\* renamed to path.1 unless maxAgeDays > 0 and the file was last written more
\* than maxAgeDays ago, and then it deletes it; the suffix 1 is never a
\* reason.  From the cleanup pass to the return of the call path.1 does not
\* change, and the lines of the file stay the ones the active file held
\* when the call began.
C33_RotationKeepsYoungLiveLog ==
    [][ /\ (JsonlSink /\ CleanupStep) =>
             /\ files[1] = Live /\ Live # 0
             /\ files'[1] = IF OlderThanMaxAge(inodes[Live].mtime) THEN 0 ELSE Live
        /\ (JsonlSink /\ Rotated /\ (WriterAt("open") \/ WriterAt("write"))) =>
             /\ files'[1] = files[1]
             /\ athr[Writer].fd # Live
        /\ (JsonlSink /\ Rotated) =>
             /\ inodes'[Live].lines = inodes[Live].lines
             /\ Len(inodes[Live].lines) >= _retention.max_size_lines ]_vars

\* witness of C33: a call that rotated is about to return; path.1 is the
\* file that was active, kept under maxAgeDays > 0 because it was written
\* within the last day
C33_Witness ==
    /\ JsonlSink /\ WriterAt("write") /\ Rotated
    /\ _retention.max_age_days > 0
    /\ _retention.rotate_count = 1
    /\ ticks > 0
    /\ files[1] = Live
    /\ inodes[Live].lines = << 1, 2 >>
    /\ athr[Writer].ev = 3

\* the files the logger keeps: the active file and path.1 .. path.rotate_count
Kept == 0 .. _retention.rotate_count

\* the positions of file k's lines that hold events of this writer (the lines
\* a file held before the first call are numbered from 100)
EventPositions(k) ==
    IF files[k] = 0 THEN {}
    ELSE { i \in DOMAIN inodes[files[k]].lines : inodes[files[k]].lines[i] \in 1 .. logged }

EventsIn(k) == { inodes[files[k]].lines[i] : i \in EventPositions(k) }

\* C34: between the calls of a single writer every logged event stands at
\* most once in the files path, path.1 .. path.rotateCount; inside a file the
\* events stand in logging order; every event of a file with a higher suffix
\* was logged before every event of a file with a lower suffix or of the
\* active file; and the events still in these files are the last ones
\* logged, without a gap.
C34_RetainedFilesOrdered ==
    (JsonlSink /\ WriterAt("idle")) =>
        /\ \A k \in Kept : \A i, j \in EventPositions(k) :
               i < j => inodes[files[k]].lines[i] < inodes[files[k]].lines[j]
        /\ \A k1, k2 \in Kept : k1 # k2 => EventsIn(k1) \cap EventsIn(k2) = {}
        /\ \A k1, k2 \in Kept :
               k1 > k2 => \A e1 \in EventsIn(k1), e2 \in EventsIn(k2) : e1 < e2
        /\ \E first \in 1 .. logged + 1 :
               UNION { EventsIn(k) : k \in Kept } = first .. logged

\* witness of C34: after five calls with rotateCount = 2 the events 1 and 2
\* stand in path.2, 3 and 4 in path.1 and 5 in the active file
C34_Witness ==
    /\ JsonlSink /\ WriterAt("idle")
    /\ _retention.rotate_count = 2
    /\ logged = 5
    /\ EventsIn(2) = { 1, 2 } /\ EventsIn(1) = { 3, 4 } /\ EventsIn(0) = { 5 }

\* a state in which the oldest events have left the retained files
C34_OldestDropped ==
    /\ JsonlSink /\ WriterAt("idle")
    /\ logged = 5
    /\ UNION { EventsIn(k) : k \in Kept } = 3 .. 5

(***************************************************************************)
(* SpecRegistry: one caller using a TenantRegistry directly, one call at a *)
(* time: check_rate_limit, record_usage, rpm_remaining and tpd_remaining   *)
(* for a known, a disabled and an unknown tenant, while time passes.       *)
(* Tenant A is loaded with every combination of an RPM limit and a TPD     *)
(* limit, 0 included.                                                      *)
(***************************************************************************)
RegistryManifests ==
    { [kind |-> "object",
       tenants |-> << [EntryA EXCEPT !.rate_limit_rpm = rpm, !.rate_limit_tpd = tpd],
                      EntryB, EntryD >>] :
          rpm \in 0 .. 2, tpd \in { 0, TpdLimit } }

\* the callers: tenant A, the disabled tenant D and a tenant the registry does not know
CallerIds == { "tenantA", "tenantD", "nobody" }

TokenCounts == -1 .. 2

InitRegistry ==
    /\ phase = "serving"
    /\ policyFile = [kind |-> "object", data |-> StrictPolicy]
    /\ tenantsFile \in RegistryManifests
    /\ legacy_api_key = ""
    /\ policy = Policy_load([kind |-> "object", data |-> StrictPolicy]).policy
    /\ registry = [loaded |-> TRUE, tenants |-> TenantRegistry_load(tenantsFile).tenants]
    /\ clock = 0
    /\ ticks = 0
    /\ requests_by_tenant = EmptyWindows
    /\ tokens_by_tenant = EmptyWindows
    /\ allowed_calls = EmptyWindows
    /\ last = NoLast
    /\ ConcIdle
    /\ AuditIdle
    /\ recorded = EmptyWindows

RegFrame == UNCHANGED << configVars, concVars, auditVars >>

\* what a call leaves behind for inspection
Call(op, tenant_id, tokens, result) ==
    [kind |-> "call", op |-> op, tenant_id |-> tenant_id, tokens |-> tokens, now |-> clock,
     before |-> [reqs |-> requests_by_tenant, toks |-> tokens_by_tenant],
     result |-> result]

\* time passes between two calls: half a minute, or the rest of a day
RegTick ==
    /\ last = NoLast
    /\ ticks < MaxRegTicks
    /\ ticks' = ticks + 1
    /\ \E d \in { TickStep, TPD_WINDOW - TickStep } : clock' = clock + d
    /\ UNCHANGED << requests_by_tenant, tokens_by_tenant, allowed_calls, last, recorded >>
    /\ RegFrame

call_check_rate_limit ==
    /\ last = NoLast
    /\ AllowedSoFar < MaxAllowed
    /\ \E tid \in CallerIds :
         LET r == check_rate_limit(registry.tenants, requests_by_tenant, tokens_by_tenant,
                                   tid, clock)
         IN  /\ requests_by_tenant' = r.reqs
             /\ tokens_by_tenant' = r.toks
             /\ allowed_calls' = IF r.ok THEN [allowed_calls EXCEPT ![tid] = Append(@, clock)]
                                 ELSE allowed_calls
             /\ last' = Call("check_rate_limit", tid, 0, [ok |-> r.ok])
    /\ UNCHANGED << clock, ticks, recorded >>
    /\ RegFrame

RecordedSoFar == Len(recorded["tenantA"]) + Len(recorded["tenantB"])
                     + Len(recorded["tenantD"])

\* the token counts a caller reports: every count for tenant A, a negative and a
\* positive one for the others
TokensFor(tid) == IF tid = "tenantA" THEN TokenCounts ELSE { -1, 1 }

call_record_usage ==
    /\ last = NoLast
    /\ \E tid \in CallerIds : \E tokens \in TokensFor(tid) :
         LET r      == record_usage(registry.tenants, tokens_by_tenant, tid, tokens, clock)
             tenant == GetTenant(registry.tenants, tid)
         IN  /\ RecordedSoFar < MaxRecorded
             /\ tokens_by_tenant' = r.toks
             /\ recorded' = IF tenant # NoTenant /\ tenant.enabled /\ ~r.raised
                            THEN [recorded EXCEPT ![tid] = Append(@, << clock, tokens >>)]
                            ELSE recorded
             /\ last' = Call("record_usage", tid, tokens, [raised |-> r.raised])
    /\ UNCHANGED << clock, ticks, requests_by_tenant, allowed_calls >>
    /\ RegFrame

call_rpm_remaining ==
    /\ last = NoLast
    /\ \E tid \in CallerIds :
         LET r == rpm_remaining(registry.tenants, requests_by_tenant, tid, clock)
         IN  /\ requests_by_tenant' = r.reqs
             /\ last' = Call("rpm_remaining", tid, 0, r.result)
    /\ UNCHANGED << clock, ticks, tokens_by_tenant, allowed_calls, recorded >>
    /\ RegFrame

call_tpd_remaining ==
    /\ last = NoLast
    /\ \E tid \in CallerIds :
         LET r == tpd_remaining(registry.tenants, tokens_by_tenant, tid, clock)
         IN  /\ tokens_by_tenant' = r.toks
             /\ last' = Call("tpd_remaining", tid, 0, r.result)
    /\ UNCHANGED << clock, ticks, requests_by_tenant, allowed_calls, recorded >>
    /\ RegFrame

\* the caller has looked at the result
RegReturn ==
    /\ last # NoLast
    /\ last' = NoLast
    /\ UNCHANGED << clock, ticks, requests_by_tenant, tokens_by_tenant, allowed_calls,
                    recorded >>
    /\ RegFrame

NextRegistry ==
    \/ RegTick
    \/ RegReturn
    \/ call_check_rate_limit
    \/ call_record_usage
    \/ call_rpm_remaining
    \/ call_tpd_remaining

SpecRegistry == InitRegistry /\ [][NextRegistry]_vars

(***************************************************************************)
(* Properties of SpecRegistry.                                             *)
(***************************************************************************)
Called(op) == last.kind = "call" /\ last.op = op
Callee == GetTenant(registry.tenants, last.tenant_id)
CalleeEnabled == Callee # NoTenant /\ Callee.enabled

\* the calls of the callee that returned true before the last call
EarlierAllowed ==
    LET h == allowed_calls[last.tenant_id]
    IN  IF Called("check_rate_limit") /\ last.result.ok THEN SubSeq(h, 1, Len(h) - 1) ELSE h

\* the tokens recorded for the callee before the last call
EarlierRecorded ==
    LET h == recorded[last.tenant_id]
    IN  IF Called("record_usage") /\ ~last.result.raised THEN SubSeq(h, 1, Len(h) - 1) ELSE h

WindowElapsed == \A j \in DOMAIN EarlierAllowed : EarlierAllowed[j] <= last.now - RPM_WINDOW
RpmFull == Callee.rate_limit_rpm > 0 /\ CountIn(EarlierAllowed, last.now) >= Callee.rate_limit_rpm
TpdExhausted ==
    Callee.rate_limit_tpd > 0 /\ TokensIn(EarlierRecorded, last.now) >= Callee.rate_limit_tpd

\* C14: a check_rate_limit call of an enabled tenant with an RPM limit, made
\* when every earlier allowed call is at least 60 seconds old, returns true.
C14_AllowedAfterWindow ==
    ( /\ Called("check_rate_limit") /\ CalleeEnabled
      /\ Callee.rate_limit_rpm > 0
      /\ WindowElapsed )
    => last.result.ok

\* C14, amended: the same, provided the tenant's TPD limit is not exhausted at
\* the time of the call.
C14_AllowedAfterWindowUnlessTpd ==
    ( /\ Called("check_rate_limit") /\ CalleeEnabled
      /\ Callee.rate_limit_rpm > 0
      /\ WindowElapsed
      /\ ~TpdExhausted )
    => last.result.ok

\* witness of C14: the window was full, its newest entry exactly 60 seconds old,
\* and the call returned true
C14_Witness ==
    /\ Called("check_rate_limit") /\ CalleeEnabled
    /\ Callee.rate_limit_rpm = 2
    /\ Len(last.before.reqs[last.tenant_id]) = 2
    /\ last.before.reqs[last.tenant_id][2] = last.now - RPM_WINDOW
    /\ WindowElapsed
    /\ last.result.ok

\* C15: for an enabled tenant with a TPD limit L > 0, a check_rate_limit call
\* made while the tokens recorded in the last 86400 seconds sum to L or more
\* returns false whatever the RPM window holds; a call made while they sum to
\* less than L is refused only if the RPM window is full.
C15_TpdDenies ==
    ( /\ Called("check_rate_limit") /\ CalleeEnabled
      /\ Callee.rate_limit_tpd > 0 )
    => /\ TpdExhausted => ~last.result.ok
       /\ ~TpdExhausted => (~last.result.ok => RpmFull)

\* witness of C15: with no allowed call in the RPM window the call was refused,
\* because two recorded usages sum to exactly L
C15_Witness ==
    /\ Called("check_rate_limit") /\ CalleeEnabled
    /\ Callee.rate_limit_tpd > 0
    /\ Len(EarlierRecorded) = 2
    /\ TokensIn(EarlierRecorded, last.now) = Callee.rate_limit_tpd
    /\ CountIn(EarlierAllowed, last.now) = 0
    /\ ~last.result.ok

\* C16: for an enabled tenant a limit of 0 is unlimited: with rateLimitRPM = 0 a
\* refusal is always for tokens and rpm_remaining is none; with rateLimitTPD = 0
\* a refusal is always for requests, tpd_remaining is none and record_usage
\* leaves the token window as it was; with both 0 every check returns true.
C16_ZeroMeansUnlimited ==
    (last.kind = "call" /\ CalleeEnabled) =>
        /\ Callee.rate_limit_rpm = 0 =>
               /\ (Called("check_rate_limit") /\ ~last.result.ok) => TpdExhausted
               /\ Called("rpm_remaining") => last.result.none
        /\ Callee.rate_limit_tpd = 0 =>
               /\ (Called("check_rate_limit") /\ ~last.result.ok) => RpmFull
               /\ Called("tpd_remaining") => last.result.none
               /\ Called("record_usage") => tokens_by_tenant = last.before.toks
        /\ (Callee.rate_limit_rpm = 0 /\ Callee.rate_limit_tpd = 0) =>
               (Called("check_rate_limit") => last.result.ok)

\* witness of C16: the third call within one instant of a tenant with both
\* limits 0 returned true, after usage had been reported for it
C16_Witness ==
    /\ Called("check_rate_limit") /\ CalleeEnabled
    /\ Callee.rate_limit_rpm = 0 /\ Callee.rate_limit_tpd = 0
    /\ Len(allowed_calls[last.tenant_id]) = 3
    /\ CountIn(allowed_calls[last.tenant_id], last.now) = 3
    /\ Len(recorded[last.tenant_id]) = 2
    /\ last.result.ok

\* the last call pruned the callee's RPM window / token window
PrunedRequests ==
    /\ last.kind = "call" /\ CalleeEnabled
    /\ Callee.rate_limit_rpm > 0
    /\ \/ Called("rpm_remaining")
       \/ Called("check_rate_limit") /\ ~TpdExhausted
PrunedTokens ==
    /\ last.kind = "call" /\ CalleeEnabled
    /\ Callee.rate_limit_tpd > 0
    /\ \/ Called("tpd_remaining")
       \/ Called("check_rate_limit")
       \/ Called("record_usage") /\ ~last.result.raised

NonDecreasing(stamps) == \A i, j \in DOMAIN stamps : i <= j => stamps[i] <= stamps[j]

\* C24: right after a call has pruned a tenant's window at clock value now,
\* every entry of the RPM window is newer than now - 60 and every entry of the
\* token window is newer than now - 86400; the entries of every window are in
\* non-decreasing timestamp order.
C24_WindowsPruned ==
    /\ PrunedRequests =>
          \A i \in DOMAIN requests_by_tenant[last.tenant_id] :
              requests_by_tenant[last.tenant_id][i] > last.now - 60
    /\ PrunedTokens =>
          \A i \in DOMAIN tokens_by_tenant[last.tenant_id] :
              tokens_by_tenant[last.tenant_id][i][1] > last.now - 86400
    /\ \A t \in TenantIds :
          /\ NonDecreasing(requests_by_tenant[t])
          /\ NonDecreasing(Stamps(tokens_by_tenant[t]))

\* witness of C24: a call found two entries in the RPM window, dropped the one
\* that was exactly 60 seconds old and kept the other
C24_Witness ==
    /\ PrunedRequests
    /\ Len(last.before.reqs[last.tenant_id]) = 2
    /\ last.before.reqs[last.tenant_id][1] = last.now - 60
    /\ Len(requests_by_tenant[last.tenant_id]) = 1

\* the entries of a token window that are newer than t - 86400
Unexpired(dq, t) == SelectSeq(dq, LAMBDA e : e[1] > t - 86400)

\* C27: record_usage raises an error for every negative token count and leaves
\* the token window as it was; for a count >= 0 it raises nothing, changes
\* nothing for a tenant without TPD limit, and otherwise leaves the unexpired
\* entries followed by the one entry (now, tokens), after which tpd_remaining
\* is the limit minus all tokens recorded in the last 86400 seconds, not
\* below 0.
C27_RecordUsage ==
    Called("record_usage") =>
        /\ last.tokens < 0 =>
              /\ last.result.raised
              /\ tokens_by_tenant = last.before.toks
        /\ last.tokens >= 0 =>
              /\ ~last.result.raised
              /\ (~CalleeEnabled \/ Callee.rate_limit_tpd = 0) =>
                    tokens_by_tenant = last.before.toks
              /\ (CalleeEnabled /\ Callee.rate_limit_tpd > 0) =>
                    /\ tokens_by_tenant =
                         [last.before.toks EXCEPT ![last.tenant_id] =
                            Append(Unexpired(@, last.now), << last.now, last.tokens >>)]
                    /\ LET left == Callee.rate_limit_tpd
                                      - TokensIn(recorded[last.tenant_id], last.now)
                       IN  tpd_remaining(registry.tenants, tokens_by_tenant,
                                         last.tenant_id, last.now).result
                             = IntOrNone(IF left < 0 THEN 0 ELSE left)

\* C35: a check_rate_limit call that returns false adds no entry to any
\* window: each window is what it was, without some of its oldest entries,
\* and the entries removed are expired ones; for an unknown or disabled
\* tenant nothing changes at all.
C35_DenialConsumesNoQuota ==
    (Called("check_rate_limit") /\ ~last.result.ok) =>
        /\ \A t \in TenantIds :
              /\ LeftPruned(last.before.reqs[t], requests_by_tenant[t])
              /\ LeftPruned(last.before.toks[t], tokens_by_tenant[t])
              /\ \A i \in 1 .. Len(last.before.reqs[t]) - Len(requests_by_tenant[t]) :
                    last.before.reqs[t][i] <= last.now - RPM_WINDOW
              /\ \A i \in 1 .. Len(last.before.toks[t]) - Len(tokens_by_tenant[t]) :
                    last.before.toks[t][i][1] <= last.now - TPD_WINDOW
        /\ ~CalleeEnabled =>
              /\ requests_by_tenant = last.before.reqs
              /\ tokens_by_tenant = last.before.toks

\* witness of C35: a call denied by the RPM dimension removed an expired
\* entry of the token window and added nothing
C35_Witness ==
    /\ Called("check_rate_limit") /\ ~last.result.ok
    /\ CalleeEnabled
    /\ RpmFull
    /\ Callee.rate_limit_tpd > 0
    /\ Len(tokens_by_tenant[last.tenant_id]) < Len(last.before.toks[last.tenant_id])

\* C37: with one call at a time, the RPM window of a tenant with
\* rateLimitRPM = N > 0 never holds more than N entries, the RPM window of a
\* tenant with rateLimitRPM = 0 is always empty, and the token window of a
\* tenant with rateLimitTPD = 0 is always empty.
C37_WindowsBounded ==
    \A i \in DOMAIN registry.tenants :
        LET tenant == registry.tenants[i]
            tid    == tenant.tenant_id
        IN  /\ tenant.rate_limit_rpm > 0 =>
                  Len(requests_by_tenant[tid]) <= tenant.rate_limit_rpm
            /\ tenant.rate_limit_rpm = 0 => requests_by_tenant[tid] = << >>
            /\ tenant.rate_limit_tpd = 0 => tokens_by_tenant[tid] = << >>

\* witness of C37: tenant A, with rateLimitRPM = 2 and no TPD limit, has a
\* full RPM window, three calls were allowed in all, and a record_usage
\* call with a positive count has just returned
C37_Witness ==
    /\ Called("record_usage") /\ last.tenant_id = "tenantA" /\ last.tokens > 0
    /\ ~last.result.raised
    /\ Callee.rate_limit_rpm = 2 /\ Callee.rate_limit_tpd = 0
    /\ Len(requests_by_tenant["tenantA"]) = 2
    /\ Len(allowed_calls["tenantA"]) = 3

(***************************************************************************)
(* SpecConfig: the constructors of the configuration objects, called one   *)
(* at a time on inputs of every shape: TenantConfig(...) and               *)
(* Policy.from_dict(data).                                                 *)
(***************************************************************************)
\* the ways a key hash can be written: 64 lowercase hexadecimal digits, the
\* same in uppercase, the same with blanks around it, 63 or 65 digits, and 64
\* characters with a `g` among them
HashForms == { "lower64", "upper64", "padded64", "short63", "long65", "nonhex64" }

KeyLists ==
    { << >> } \cup { << Written("keyA", f) >> : f \in HashForms }
        \cup { << Written("keyA", f), Written("keyB", g) >> : f, g \in HashForms }

RetentionInputs ==
    { EmptyObject,
      [max_size_mb |-> 0, max_age_days |-> 0, rotate_count |-> 0],
      [max_size_mb |-> -1], [max_age_days |-> -1], [rotate_count |-> -1],
      [max_size_mb |-> -1, max_age_days |-> -1, rotate_count |-> -1] }

PolicyInputs ==
    { [allowed_providers |-> ps,
       logging |-> [mode |-> m, sink |-> sk, path |-> pa, retention |-> rt]] :
          ps \in { << >>, << "openrouter" >> },
          m  \in { "metadata_only", "content" },
          sk \in { "jsonl", "stdout", "syslog" },
          pa \in { "", "audit.jsonl" },
          rt \in RetentionInputs }

InitConfig ==
    /\ phase = "boot"
    /\ policyFile = [kind |-> "object", data |-> StrictPolicy]
    /\ tenantsFile = [kind |-> "missing"]
    /\ legacy_api_key = ""
    /\ policy = NoPolicy
    /\ registry = NoRegistry
    /\ clock = 0
    /\ ticks = 0
    /\ requests_by_tenant = EmptyWindows
    /\ tokens_by_tenant = EmptyWindows
    /\ allowed_calls = EmptyWindows
    /\ last = NoLast
    /\ ConcIdle
    /\ AuditIdle
    /\ HistIdle

ConfigFrame ==
    UNCHANGED << configVars, clock, ticks, requests_by_tenant, tokens_by_tenant,
                 allowed_calls, concVars, auditVars, histVars >>

new_TenantConfig ==
    /\ last = NoLast
    /\ \E tenant_id \in { "", "tenantA" }, api_keys \in KeyLists,
          rate_limit_rpm \in { -1, 0, 2 }, rate_limit_tpd \in { -1, 0 }, enabled \in BOOLEAN :
         last' = [kind |-> "TenantConfig",
                  args |-> [tenant_id |-> tenant_id, api_keys |-> api_keys,
                            rate_limit_rpm |-> rate_limit_rpm,
                            rate_limit_tpd |-> rate_limit_tpd, enabled |-> enabled],
                  result |-> TenantConfig(tenant_id, api_keys, rate_limit_rpm,
                                          rate_limit_tpd, enabled)]
    /\ ConfigFrame

call_Policy_from_dict ==
    /\ last = NoLast
    /\ \E data \in PolicyInputs :
         last' = [kind |-> "Policy.from_dict", args |-> data,
                  result |-> Policy_from_dict(data)]
    /\ ConfigFrame

\* the caller has looked at the object or at the exception
ConfigReturn ==
    /\ last # NoLast
    /\ last' = NoLast
    /\ ConfigFrame

NextConfig == new_TenantConfig \/ call_Policy_from_dict \/ ConfigReturn

SpecConfig == InitConfig /\ [][NextConfig]_vars

\* C19: TenantConfig(...) with otherwise valid fields succeeds exactly when
\* every key hash is written as 64 lowercase hexadecimal digits; a hash of
\* another length, with a non-hexadecimal character, or in uppercase makes it
\* fail.
C19_OnlyLowercaseHexAccepted ==
    ( /\ last.kind = "TenantConfig"
      /\ last.args.tenant_id # ""
      /\ last.args.rate_limit_rpm >= 0 /\ last.args.rate_limit_tpd >= 0 )
    => ( last.result.ok <=>
           \A i \in DOMAIN last.args.api_keys : last.args.api_keys[i].form = "lower64" )

\* the rules of policy loading that the input breaks, in the order
\* allowedProviders, logging.mode, logging.sink, logging.path, retention
BrokenRules(data) ==
    LET lg == Get(data, "logging", EmptyObject)
        rt == Get(lg, "retention", EmptyObject)
        sk == Get(lg, "sink", "jsonl")
    IN  SelectSeq(
          << [rule |-> "allowed_providers", broken |-> Get(data, "allowed_providers", << >>) = << >>],
             [rule |-> "logging.mode", broken |-> Get(lg, "mode", "metadata_only") # "metadata_only"],
             [rule |-> "logging.sink", broken |-> sk \notin { "jsonl", "stdout" }],
             [rule |-> "logging.path", broken |-> sk = "jsonl" /\ Get(lg, "path", "") = ""],
             [rule |-> "retention",
              broken |-> \/ Get(rt, "max_size_mb", 0) < 0
                         \/ Get(rt, "max_age_days", 0) < 0
                         \/ Get(rt, "rotate_count", 0) < 0] >>,
          LAMBDA r : r.broken)

\* the rule a PolicyError message names
RuleOf(msg) ==
    CASE msg = "allowed_providers must be non-empty" -> "allowed_providers"
      [] msg = "Unsupported logging.mode" -> "logging.mode"
      [] msg = "Unsupported logging.sink" -> "logging.sink"
      [] msg = "logging.path required when logging.sink is jsonl" -> "logging.path"
      [] OTHER -> "retention"

\* C20: Policy.from_dict returns a policy exactly when the input breaks none of
\* the five rules, and otherwise raises the PolicyError of the first rule
\* broken in the order allowedProviders, logging.mode, logging.sink,
\* logging.path, retention.
C20_PolicyValidationOrder ==
    last.kind = "Policy.from_dict" =>
        LET broken == BrokenRules(last.args)
        IN  /\ last.result.ok <=> broken = << >>
            /\ broken # << >> => RuleOf(last.result.error) = broken[1].rule

(***************************************************************************)
(* SpecPii: the PII gate called directly, one call at a time:              *)
(* PIIDetectorConfig.from_dict on every shape of input, and scan,          *)
(* contains_pii, scan_messages and the pipeline for every configuration of *)
(* the detector.                                                           *)
(***************************************************************************)
\* the detector configurations: on and off, with every set of pattern types
PiiConfigs == { [enabled |-> e, patterns |-> ps] : e \in BOOLEAN, ps \in SUBSET DEFAULT_ENABLED }

ScanTexts == Texts \cup { "", "hello" }

ScanMessageLists ==
    { << >>, << Good >>, << NoneContent >>,
      << Msg("user", Str("123-45-6789")) >>,
      << Good, Msg("user", Str("a@b.co")) >>,
      << Msg("user", Str("123-45-6789")), Msg("user", Str("a@b.co")) >>,
      << NoneContent, Msg("user", Str("a@b.co 123-45-6789")) >> }

\* the values of an "enabled" entry and of a "patterns" entry
EnabledValues == { JBool(TRUE), JBool(FALSE), JNull, JInt(0), JInt(1), JStr(""), JStr("false") }
PatternsValues ==
    { [other |-> TRUE], [list |-> << >>], [list |-> << "passport" >>], [list |-> << "ssn" >>],
      [list |-> << "ssn", "passport", "credit_card" >>], [list |-> PATTERNS] }

\* the inputs of PIIDetectorConfig.from_dict: None, or a JSON object
PiiGateInputs ==
    { [isNone |-> TRUE], [isNone |-> FALSE, d |-> EmptyObject] }
    \cup { [isNone |-> FALSE, d |-> [enabled |-> e]] : e \in EnabledValues }
    \cup { [isNone |-> FALSE, d |-> [patterns |-> ps]] : ps \in PatternsValues }
    \cup { [isNone |-> FALSE, d |-> [enabled |-> e, patterns |-> ps]] :
             e \in EnabledValues, ps \in PatternsValues }

\* the policy of the gateway, with the detector configured as `config`
PolicyWithGate(config) ==
    [Policy_load([kind |-> "object", data |-> LenientPolicy]).policy EXCEPT !.pii_gate = config]

call_PIIDetectorConfig_from_dict ==
    /\ last = NoLast
    /\ \E data \in PiiGateInputs :
         last' = [kind |-> "from_dict", args |-> data, result |-> PIIDetectorConfig_from_dict(data)]
    /\ ConfigFrame

call_scan ==
    /\ last = NoLast
    /\ \E config \in PiiConfigs, text \in ScanTexts :
         last' = [kind |-> "scan", args |-> [config |-> config, text |-> text],
                  result |-> scan(config, text)]
    /\ ConfigFrame

call_contains_pii ==
    /\ last = NoLast
    /\ \E config \in PiiConfigs, text \in ScanTexts :
         last' = [kind |-> "contains_pii", args |-> [config |-> config, text |-> text],
                  result |-> contains_pii(config, text)]
    /\ ConfigFrame

call_scan_messages ==
    /\ last = NoLast
    /\ \E config \in PiiConfigs, messages \in ScanMessageLists :
         last' = [kind |-> "scan_messages", args |-> [config |-> config, messages |-> messages],
                  result |-> scan_messages(config, messages)]
    /\ ConfigFrame

\* one request through the pipeline of a gateway without registry and legacy key
call_chat_completions ==
    /\ last = NoLast
    /\ \E config \in PiiConfigs, messages \in MessageLists :
         LET req == Request(NoAuthorization, NoneStr, messages, NoneStr, TRUE, TRUE)
             r   == chat_completions(PolicyWithGate(config), NoRegistry, "",
                                     EmptyWindows, EmptyWindows, req, 0)
         IN  last' = [kind |-> "chat_completions", args |-> [config |-> config, req |-> req],
                      result |-> [status |-> r.status, code |-> r.code, audit |-> r.audit]]
    /\ ConfigFrame

NextPii ==
    \/ call_PIIDetectorConfig_from_dict
    \/ call_scan
    \/ call_contains_pii
    \/ call_scan_messages
    \/ call_chat_completions
    \/ ConfigReturn

SpecPii == InitConfig /\ [][NextPii]_vars

\* a text of the model that holds a social security number or an e-mail address
HoldsPii(text) ==
    text \in { "123-45-6789", "987-65-4321", "a@b.co", "my ssn: 123-45-6789",
               "<NUL> 123-45-6789", "a@b.co 123-45-6789" }

\* C22: with enabled = false, scan returns the empty list, contains_pii false
\* and scan_messages the empty map, for every input and every set of patterns,
\* and the pipeline never answers pii_detected.
C22_DisabledGateIsSilent ==
    ( /\ last.kind \in { "scan", "contains_pii", "scan_messages", "chat_completions" }
      /\ ~last.args.config.enabled )
    => /\ last.kind = "scan" => last.result = << >>
       /\ last.kind = "contains_pii" => last.result = FALSE
       /\ last.kind = "scan_messages" => DOMAIN last.result = {}
       /\ last.kind = "chat_completions" =>
            /\ last.result.code # "pii_detected"
            /\ \A i \in DOMAIN last.result.audit : last.result.audit[i].reason # "pii_detected"

\* witness of C22: a disabled detector with all five patterns scanned a text
\* that holds a social security number and returned the empty list
C22_Witness ==
    /\ last.kind = "scan"
    /\ ~last.args.config.enabled
    /\ last.args.config.patterns = DEFAULT_ENABLED
    /\ HoldsPii(last.args.text)
    /\ last.result = << >>

\* C23: PIIDetectorConfig.from_dict yields a disabled gate only when the input
\* sets enabled to the boolean false, and never an empty pattern set: the valid
\* names of a patterns list when there are some, all five types otherwise.
C23_GateConfigFailSafe ==
    last.kind = "from_dict" =>
        LET d     == IF last.args.isNone THEN EmptyObject ELSE last.args.d
            valid == IF "patterns" \in DOMAIN d /\ "list" \in DOMAIN d.patterns
                     THEN { d.patterns.list[i] : i \in DOMAIN d.patterns.list }
                              \cap { "ssn", "email", "phone", "credit_card", "ip_address" }
                     ELSE {}
        IN  /\ ~last.result.enabled => ("enabled" \in DOMAIN d /\ d.enabled = JBool(FALSE))
            /\ last.result.patterns # {}
            /\ last.result.patterns =
                 IF valid # {} THEN valid
                 ELSE { "ssn", "email", "phone", "credit_card", "ip_address" }

(***************************************************************************)
(* SpecAuth: TenantRegistry.authenticate called on registries in which     *)
(* several tenants, enabled or not, hold the same key hash.                *)
(***************************************************************************)
\* the key lists of a tenant: keyA, keyB, or both
SharedKeyLists ==
    { << sha256_hex("keyA") >>, << sha256_hex("keyB") >>,
      << sha256_hex("keyB"), sha256_hex("keyA") >> }

\* the tenants a registry can hold under the id `tid`
TenantsNamed(tid) ==
    { TenantConfig(tid, ks, 0, 0, e).tenant : ks \in SharedKeyLists, e \in BOOLEAN }

\* registries of one, two and three tenants, in registration order
SharedKeyRegistries ==
    { << a >> : a \in TenantsNamed("tenantA") }
    \cup { << a, b >> : a \in TenantsNamed("tenantA"), b \in TenantsNamed("tenantB") }
    \cup { << a, b, d >> : a \in TenantsNamed("tenantA"), b \in TenantsNamed("tenantB"),
                            d \in TenantsNamed("tenantD") }

BearerTokens == { "", " ", "keyA", " keyA ", "keyB", "unknown" }

call_authenticate ==
    /\ last = NoLast
    /\ \E tenants \in SharedKeyRegistries, bearer_token \in BearerTokens :
         last' = [kind |-> "authenticate",
                  args |-> [tenants |-> tenants, bearer_token |-> bearer_token],
                  result |-> authenticate(tenants, bearer_token)]
    /\ ConfigFrame

NextAuth == call_authenticate \/ ConfigReturn

SpecAuth == InitConfig /\ [][NextAuth]_vars

\* the positions, in registration order, of the enabled tenants that hold the
\* hash of the last call's token
EnabledHoldersAt ==
    LET tenants == last.args.tenants
        token   == Strip(last.args.bearer_token)
    IN  { i \in DOMAIN tenants :
            /\ tenants[i].enabled
            /\ \E k \in DOMAIN tenants[i].api_keys : tenants[i].api_keys[k].digest = token }

\* C26: authenticate returns the last enabled tenant, in registration order,
\* that holds the hash of the token; disabled holders are skipped wherever they
\* stand, and the result is none exactly when no enabled tenant holds the hash.
C26_LastMatchWins ==
    last.kind = "authenticate" =>
        IF EnabledHoldersAt = {} THEN last.result = NoTenant
        ELSE LET i == CHOOSE h \in EnabledHoldersAt : \A g \in EnabledHoldersAt : g <= h
             IN  last.result = last.args.tenants[i]

\* witness of C26: three tenants hold the hash; the first two are enabled, the
\* third is disabled, and the second is returned
C26_Witness ==
    /\ last.kind = "authenticate"
    /\ Len(last.args.tenants) = 3
    /\ EnabledHoldersAt = { 1, 2 }
    /\ \E k \in DOMAIN last.args.tenants[3].api_keys :
          last.args.tenants[3].api_keys[k] = sha256_hex(Strip(last.args.bearer_token))
    /\ last.result = last.args.tenants[2]

(***************************************************************************)
(* SpecAdmit: the success path of chat_completions (app.py 232-281) one    *)
(* statement group at a time, in a gateway whose audit sink is stdout.     *)
(* A request is taken through authentication, the rate check and the body  *)
(* checks in one step; if none denies, the routing stub, the allow event,  *)
(* the rate-limit headers and record_usage follow as steps of their own.   *)
(***************************************************************************)
MaxAdmitRequests == 3

\* the requests of SpecAdmit: no credential, the keys of tenants A, B and D,
\* with and without a model, passing and failing the attestations
AdmitRequests ==
    { Request(a, NoneStr, << Good >>, m, z, z) :
        a \in { NoAuthorization, Bearer("keyA"), Bearer("keyB"), Bearer("keyD") },
        m \in { NoneStr, Str("m1") }, z \in BOOLEAN }

InitAdmit ==
    /\ phase = "serving"
    /\ policyFile \in { [kind |-> "object", data |-> ZdrPolicy],
                        [kind |-> "object", data |-> ScrubPolicy] }
    /\ tenantsFile \in { ValidManifest, [kind |-> "missing"] }
    /\ legacy_api_key = ""
    /\ policy = Policy_load(policyFile).policy
    /\ registry = IF tenantsFile = ValidManifest
                  THEN [loaded |-> TRUE, tenants |-> TenantRegistry_load(tenantsFile).tenants]
                  ELSE NoRegistry
    /\ clock = 0
    /\ ticks = 0
    /\ requests_by_tenant = EmptyWindows
    /\ tokens_by_tenant = EmptyWindows
    /\ allowed_calls = EmptyWindows
    /\ last = NoLast
    /\ ConcIdle
    /\ AuditIdle
    /\ recorded = EmptyWindows

AdmitFrame == UNCHANGED << configVars, concVars, files, inodes, athr, logged, _retention >>

AdmitTick ==
    /\ last = NoLast
    /\ ticks < MaxTicks
    /\ ticks' = ticks + 1
    /\ clock' = clock + TickStep
    /\ UNCHANGED << requests_by_tenant, tokens_by_tenant, allowed_calls, last, stdout, recorded >>
    /\ AdmitFrame

\* a mutation of NextPc: record_usage before the headers
NextPc_RecordFirst(pc) ==
    CASE pc = "select"  -> "audit"
      [] pc = "audit"   -> "record"
      [] pc = "record"  -> "headers"
      [] pc = "headers" -> "return"

\* app.py 232-281: the statement group that follows the group pc
NextPc(pc) ==
    CASE pc = "select"  -> "audit"
      [] pc = "audit"   -> "headers"
      [] pc = "headers" -> "record"
      [] pc = "record"  -> "return"

\* app.py 96-230: authentication, the rate check and the body checks; deny()
\* logs its event and raises
admit_checks ==
    /\ last = NoLast
    /\ Len(stdout) < MaxAdmitRequests
    /\ \E req \in AdmitRequests :
         LET a == AuthStage(registry, legacy_api_key, requests_by_tenant, tokens_by_tenant,
                            req, clock)
             d == IF a.deny.hit THEN a.deny ELSE FirstDeny(BodyChecks(policy, req))
             before == [reqs |-> requests_by_tenant, toks |-> tokens_by_tenant,
                        recorded |-> recorded, stdout |-> stdout]
             auth == [f \in (DOMAIN a) \ { "reqs", "toks", "deny" } |-> a[f]]
         IN  /\ requests_by_tenant' = a.reqs
             /\ tokens_by_tenant' = a.toks
             /\ allowed_calls' = IF a.rate_ok
                                 THEN [allowed_calls EXCEPT ![a.tenant_id] = Append(@, clock)]
                                 ELSE allowed_calls
             /\ IF d.hit
                THEN LET r == DeniedResponse(req, a, d)
                     IN  /\ stdout' = stdout \o r.audit
                         /\ last' = [kind |-> "response", req |-> req, now |-> clock,
                                     before |-> before,
                                     resp |-> [f \in (DOMAIN r) \ {"reqs", "toks"} |-> r[f]]]
                ELSE /\ stdout' = stdout
                     /\ last' = [kind |-> "admitting", pc |-> "select", req |-> req,
                                 now |-> clock, before |-> before, a |-> auth,
                                 selected_provider |-> "None", selected_model |-> "None",
                                 headers |-> [rpm |-> NoneInt, tpd |-> NoneInt],
                                 headers_done |-> FALSE, usage_recorded |-> FALSE]
    /\ UNCHANGED << clock, ticks, recorded >>
    /\ AdmitFrame

AdmitAt(pc) == last.kind = "admitting" /\ last.pc = pc

\* app.py 254 and 278: `registry is not None and authenticated_tenant is not None`
TenantAuthenticated == registry.loaded /\ last.a.authenticated

\* app.py 233-234
admit_select ==
    /\ AdmitAt("select")
    /\ last' = [last EXCEPT !.pc = NextPc("select"),
                            !.selected_provider = policy.allowed_providers[1],
                            !.selected_model = OrStr(last.req.model, "stub")]
    /\ UNCHANGED << clock, ticks, requests_by_tenant, tokens_by_tenant, allowed_calls,
                    stdout, recorded >>
    /\ AdmitFrame

\* app.py 236-251: audit.log(AuditEvent.now(...)) with the stdout sink
admit_audit ==
    /\ AdmitAt("audit")
    /\ stdout' = Append(stdout, AllowEvent(policy, last.req, last.a.tenant_id,
                                           last.selected_provider, last.selected_model))
    /\ last' = [last EXCEPT !.pc = NextPc("audit")]
    /\ UNCHANGED << clock, ticks, requests_by_tenant, tokens_by_tenant, allowed_calls,
                    recorded >>
    /\ AdmitFrame

\* app.py 253-260
admit_headers ==
    /\ AdmitAt("headers")
    /\ IF TenantAuthenticated
       THEN LET rpm == rpm_remaining(registry.tenants, requests_by_tenant,
                                     last.a.tenant_id, clock)
                tpd == tpd_remaining(registry.tenants, tokens_by_tenant,
                                     last.a.tenant_id, clock)
            IN  /\ requests_by_tenant' = rpm.reqs
                /\ tokens_by_tenant' = tpd.toks
                /\ last' = [last EXCEPT !.pc = NextPc("headers"), !.headers_done = TRUE,
                                        !.headers = [rpm |-> rpm.result, tpd |-> tpd.result]]
       ELSE /\ last' = [last EXCEPT !.pc = NextPc("headers"), !.headers_done = TRUE]
            /\ UNCHANGED << requests_by_tenant, tokens_by_tenant >>
    /\ UNCHANGED << clock, ticks, allowed_calls, stdout, recorded >>
    /\ AdmitFrame

\* app.py 262-279: the response object (total_tokens = 0) and record_usage
admit_record ==
    /\ AdmitAt("record")
    /\ LET total_tokens == 0
       IN  IF TenantAuthenticated
           THEN /\ tokens_by_tenant' = record_usage(registry.tenants, tokens_by_tenant,
                                                    last.a.tenant_id, total_tokens, clock).toks
                /\ recorded' = [recorded EXCEPT ![last.a.tenant_id] =
                                                    Append(@, << clock, total_tokens >>)]
                /\ last' = [last EXCEPT !.pc = NextPc("record"), !.usage_recorded = TRUE]
           ELSE /\ last' = [last EXCEPT !.pc = NextPc("record")]
                /\ UNCHANGED << tokens_by_tenant, recorded >>
    /\ UNCHANGED << clock, ticks, requests_by_tenant, allowed_calls, stdout >>
    /\ AdmitFrame

\* app.py 281: return resp
admit_return ==
    /\ AdmitAt("return")
    /\ last' = [kind |-> "response", req |-> last.req, now |-> last.now,
                before |-> last.before,
                resp |-> [status |-> 200, code |-> "ok", message |-> "",
                          details |-> [empty |-> TRUE],
                          audit |-> << AllowEvent(policy, last.req, last.a.tenant_id,
                                                  last.selected_provider,
                                                  last.selected_model) >>,
                          headers |-> last.headers,
                          tenant_id |-> last.a.tenant_id,
                          authenticated |-> last.a.authenticated,
                          rate_called |-> last.a.rate_called, rate_ok |-> last.a.rate_ok,
                          usage_recorded |-> last.usage_recorded, total_tokens |-> 0,
                          provider |-> last.selected_provider,
                          model |-> last.selected_model]]
    /\ UNCHANGED << clock, ticks, requests_by_tenant, tokens_by_tenant, allowed_calls,
                    stdout, recorded >>
    /\ AdmitFrame

\* the response has gone to the client
AdmitDone ==
    /\ last.kind = "response"
    /\ last' = NoLast
    /\ UNCHANGED << clock, ticks, requests_by_tenant, tokens_by_tenant, allowed_calls,
                    stdout, recorded >>
    /\ AdmitFrame

NextAdmit ==
    \/ AdmitTick
    \/ admit_checks
    \/ admit_select
    \/ admit_audit
    \/ admit_headers
    \/ admit_record
    \/ admit_return
    \/ AdmitDone

SpecAdmit == InitAdmit /\ [][NextAdmit]_vars

\* the allow event of the request being admitted is the last line of the sink
AllowEventWritten ==
    /\ Len(stdout) = Len(last.before.stdout) + 1
    /\ stdout[Len(stdout)].action = "allow"
    /\ stdout[Len(stdout)].tenant_id = last.a.tenant_id
    /\ stdout[Len(stdout)].provider = last.selected_provider
    /\ stdout[Len(stdout)].model = last.selected_model

\* what the sequential pipeline of Spec answers to the same request
SameAsPipeline ==
    (Responded /\ Admitted) =>
        LET a0 == AuthStage(registry, legacy_api_key, last.before.reqs, last.before.toks,
                            last.req, last.now)
            r  == AllowedResponse(policy, registry, last.req, a0, last.now)
        IN  /\ last.resp = [f \in (DOMAIN r) \ {"reqs", "toks"} |-> r[f]]
            /\ requests_by_tenant = r.reqs
            /\ tokens_by_tenant = r.toks

\* C29: on admission the provider and model are selected first, then the
\* allow event is written, then the headers are computed, then the usage is
\* recorded; usage is recorded exactly once for an admitted request of an
\* authenticated tenant and not at all for any other request; and the TPD
\* header is computed from the usage recorded before the request.
C29_AdmissionOrder ==
    /\ [][ /\ stdout' # stdout /\ last.kind = "admitting" =>
                /\ last.selected_provider # "None" /\ last.selected_model # "None"
                /\ ~last.headers_done /\ ~last'.headers_done
                /\ recorded = last.before.recorded /\ recorded' = recorded
           /\ (last.kind = "admitting" /\ last'.kind = "admitting"
                 /\ last'.headers_done /\ ~last.headers_done) =>
                /\ AllowEventWritten /\ stdout' = stdout
                /\ recorded = last.before.recorded /\ recorded' = recorded
           /\ recorded' # recorded =>
                /\ last.kind = "admitting" /\ last.headers_done
                /\ AllowEventWritten /\ stdout' = stdout ]_vars
    /\ []( Responded =>
             /\ recorded =
                  IF Admitted /\ registry.loaded /\ last.resp.authenticated
                  THEN [last.before.recorded EXCEPT ![last.resp.tenant_id] =
                           Append(@, << last.now, 0 >>)]
                  ELSE last.before.recorded
             /\ Len(stdout) = Len(last.before.stdout) + 1
             /\ (Admitted /\ ~last.resp.headers.tpd.none) =>
                   LET left == LastTenant.rate_limit_tpd
                                 - TokensIn(last.before.recorded[last.resp.tenant_id], last.now)
                   IN  last.resp.headers.tpd.value = IF left < 0 THEN 0 ELSE left )

\* witness of C29: the second admitted request of tenant A has been answered,
\* with both headers, two allow events in the sink and two usage records
C29_Witness ==
    /\ Responded /\ Admitted
    /\ last.resp.tenant_id = "tenantA"
    /\ last.resp.headers.rpm = IntOrNone(0)
    /\ ~last.resp.headers.tpd.none
    /\ Len(recorded["tenantA"]) = 2
    /\ Len(stdout) = 2 /\ stdout[1].action = "allow" /\ stdout[2].action = "allow"

(***************************************************************************)
(* SpecAuditFail: chat_completions in a gateway whose audit sink can fail. *)
(* AuditLogger.log catches nothing around print / open / write, so an      *)
(* OSError of the sink leaves log, leaves deny() before its raise          *)
(* statement or leaves chat_completions before the response is built, and  *)
(* the server answers with its generic 500.  The steps of the success path *)
(* are those of SpecAdmit.                                                 *)
(***************************************************************************)
\* at most this many audit events reach the sink
MaxSinkLines == 2

\* the call of chat_completions ended in an exception that is no GatewayError
ServerError(stage, req, before) ==
    [kind |-> "error", status |-> 500, stage |-> stage, req |-> req, now |-> clock,
     before |-> before]

\* app.py 96-230 with a sink that may raise inside deny()
fail_checks ==
    /\ last = NoLast
    /\ Len(stdout) < MaxSinkLines
    /\ AllowedSoFar < MaxAllowed
    /\ \E req \in AdmitRequests, sink_ok \in BOOLEAN :
         LET a == AuthStage(registry, legacy_api_key, requests_by_tenant, tokens_by_tenant,
                            req, clock)
             d == IF a.deny.hit THEN a.deny ELSE FirstDeny(BodyChecks(policy, req))
             before == [reqs |-> requests_by_tenant, toks |-> tokens_by_tenant,
                        recorded |-> recorded, stdout |-> stdout]
             auth == [f \in (DOMAIN a) \ { "reqs", "toks", "deny" } |-> a[f]]
         IN  /\ requests_by_tenant' = a.reqs
             /\ tokens_by_tenant' = a.toks
             /\ allowed_calls' = IF a.rate_ok
                                 THEN [allowed_calls EXCEPT ![a.tenant_id] = Append(@, clock)]
                                 ELSE allowed_calls
             /\ IF d.hit /\ sink_ok
                THEN LET r == DeniedResponse(req, a, d)
                     IN  /\ stdout' = stdout \o r.audit
                         /\ last' = [kind |-> "response", req |-> req, now |-> clock,
                                     before |-> before,
                                     resp |-> [f \in (DOMAIN r) \ {"reqs", "toks"} |-> r[f]]]
                ELSE IF d.hit
                THEN /\ stdout' = stdout
                     /\ last' = ServerError("deny", req, before)
                ELSE /\ stdout' = stdout
                     /\ last' = [kind |-> "admitting", pc |-> "select", req |-> req,
                                 now |-> clock, before |-> before, a |-> auth,
                                 selected_provider |-> "None", selected_model |-> "None",
                                 headers |-> [rpm |-> NoneInt, tpd |-> NoneInt],
                                 headers_done |-> FALSE, usage_recorded |-> FALSE]
    /\ UNCHANGED << clock, ticks, recorded >>
    /\ AdmitFrame

\* a mutation of fail_audit: the exception of the sink is swallowed
fail_audit_Swallows ==
    /\ AdmitAt("audit")
    /\ \E sink_ok \in BOOLEAN :
         /\ stdout' = IF sink_ok
                      THEN Append(stdout, AllowEvent(policy, last.req, last.a.tenant_id,
                                                     last.selected_provider,
                                                     last.selected_model))
                      ELSE stdout
         /\ last' = [last EXCEPT !.pc = NextPc("audit")]
    /\ UNCHANGED << clock, ticks, requests_by_tenant, tokens_by_tenant, allowed_calls,
                    recorded >>
    /\ AdmitFrame

\* app.py 236-251: audit.log(AuditEvent.now(...)) with a sink that may raise
fail_audit ==
    /\ AdmitAt("audit")
    /\ \E sink_ok \in BOOLEAN :
         IF sink_ok
         THEN /\ stdout' = Append(stdout, AllowEvent(policy, last.req, last.a.tenant_id,
                                                     last.selected_provider,
                                                     last.selected_model))
              /\ last' = [last EXCEPT !.pc = NextPc("audit")]
         ELSE /\ stdout' = stdout
              /\ last' = ServerError("allow", last.req, last.before)
    /\ UNCHANGED << clock, ticks, requests_by_tenant, tokens_by_tenant, allowed_calls,
                    recorded >>
    /\ AdmitFrame

\* the generic 500 has gone to the client
fail_done ==
    /\ last.kind = "error"
    /\ last' = NoLast
    /\ UNCHANGED << clock, ticks, requests_by_tenant, tokens_by_tenant, allowed_calls,
                    stdout, recorded >>
    /\ AdmitFrame

NextAuditFail ==
    \/ AdmitTick
    \/ fail_checks
    \/ admit_select
    \/ fail_audit
    \/ admit_headers
    \/ admit_record
    \/ admit_return
    \/ AdmitDone
    \/ fail_done

SpecAuditFail == InitAdmit /\ [][NextAuditFail]_vars

Failed(stage) == last.kind = "error" /\ last.stage = stage

\* the sink holds, as its last line, the event the response reports
EventOfResponseWritten ==
    /\ Len(stdout) = Len(last.before.stdout) + 1
    /\ SubSeq(stdout, 1, Len(stdout) - 1) = last.before.stdout
    /\ stdout[Len(stdout)] = last.resp.audit[1]

\* C32: no request is admitted without its audit record.  A 200 is returned
\* and usage is recorded only after the allow event of the request has been
\* written; when the sink fails on the allow event the call ends in the
\* generic 500 with no success result and no usage recorded; when it fails
\* on a deny event the call ends in the generic 500 as well, never in an
\* admission; and every typed answer has its event in the sink.
C32_NoAdmissionWithoutAudit ==
    /\ [][ /\ recorded' # recorded =>
                /\ last.kind = "admitting"
                /\ AllowEventWritten
           /\ (last.kind = "error") =>
                /\ last'.kind \in { "error", "none" }
                /\ recorded' = recorded /\ stdout' = stdout
                /\ tokens_by_tenant' = tokens_by_tenant ]_vars
    /\ []( Responded => EventOfResponseWritten )
    /\ []( (Responded /\ Admitted) =>
             /\ stdout[Len(stdout)].action = "allow"
             /\ stdout[Len(stdout)].tenant_id = last.resp.tenant_id )
    /\ []( (last.kind = "error") =>
             /\ last.status = 500
             /\ stdout = last.before.stdout
             /\ recorded = last.before.recorded
             /\ \A t \in TenantIds :
                   Len(tokens_by_tenant[t]) <= Len(last.before.toks[t]) )

\* witness of C32: the sink failed on the allow event of tenant A's request
\* after an earlier request of the tenant had been admitted and recorded
C32_Witness ==
    /\ Failed("allow")
    /\ last.req.authorization = Bearer("keyA")
    /\ Len(recorded["tenantA"]) = 1
    /\ Len(allowed_calls["tenantA"]) = 2
    /\ Len(stdout) = 1

\* the sink failed on the deny event of a rate_limited request
C32_DenyFailureReached ==
    /\ Failed("deny")
    /\ last.req.authorization = Bearer("keyA")
    /\ Len(allowed_calls["tenantA"]) = 2

(***************************************************************************)
(* SpecUsage: the registry as chat_completions uses it for the requests of *)
(* its tenants, one request after another: check_rate_limit (app.py 136),  *)
(* then, unless the rate check or a later check denies the request,        *)
(* record_usage with the tokens of the response (app.py 277-279).  The     *)
(* stub provider reports 0 tokens; the counts 1 and 2 stand for a provider *)
(* that reports usage.  When the rate check fails, rpm_remaining and       *)
(* tpd_remaining are called for the details of the denial (app.py          *)
(* 137-138).  Every call reads the clock anew (self._now()), and time can  *)
(* pass between two calls of one request.                                  *)
(***************************************************************************)
\* resp.usage.total_tokens
UsageTokens == 0 .. 2

\* the request in flight: where it stands and what its rate check saw
UsageRequest(stage, tenant_id, seen) ==
    [kind |-> stage, tenant_id |-> tenant_id, now |-> clock, seen |-> seen,
     code |-> IF stage = "checked" THEN "ok" ELSE "rate_limited",
     details |-> [rpm_remaining |-> NoneInt, tpd_remaining |-> NoneInt]]

\* time.time() advances, between requests or inside one
usage_tick ==
    /\ ticks < MaxRegTicks
    /\ ticks' = ticks + 1
    /\ \E d \in { TickStep, TPD_WINDOW - TickStep } : clock' = clock + d
    /\ UNCHANGED << requests_by_tenant, tokens_by_tenant, allowed_calls, last, recorded >>
    /\ RegFrame

\* app.py 136: registry.check_rate_limit(tenant_id)
usage_check ==
    /\ last = NoLast
    /\ AllowedSoFar < MaxAllowed
    /\ \E tid \in CallerIds :
         LET r == check_rate_limit(registry.tenants, requests_by_tenant, tokens_by_tenant,
                                   tid, clock)
         IN  /\ requests_by_tenant' = r.reqs
             /\ tokens_by_tenant' = r.toks
             /\ allowed_calls' = IF r.ok THEN [allowed_calls EXCEPT ![tid] = Append(@, clock)]
                                 ELSE allowed_calls
             /\ last' = UsageRequest(IF r.ok THEN "checked" ELSE "rpm_remaining", tid,
                                     [reqs |-> requests_by_tenant,
                                      toks |-> tokens_by_tenant])
    /\ UNCHANGED << clock, ticks, recorded >>
    /\ RegFrame

\* app.py 137: rpm_remaining = registry.rpm_remaining(tenant_id)
usage_rpm_remaining ==
    /\ last.kind = "rpm_remaining"
    /\ LET r == rpm_remaining(registry.tenants, requests_by_tenant, last.tenant_id, clock)
       IN  /\ requests_by_tenant' = r.reqs
           /\ last' = [last EXCEPT !.kind = "tpd_remaining",
                                   !.details.rpm_remaining = r.result]
    /\ UNCHANGED << clock, ticks, tokens_by_tenant, allowed_calls, recorded >>
    /\ RegFrame

\* app.py 138-144: tpd_remaining = registry.tpd_remaining(tenant_id); deny(...)
usage_tpd_remaining ==
    /\ last.kind = "tpd_remaining"
    /\ LET r == tpd_remaining(registry.tenants, tokens_by_tenant, last.tenant_id, clock)
       IN  /\ tokens_by_tenant' = r.toks
           /\ last' = [last EXCEPT !.kind = "denied",
                                   !.details.tpd_remaining = r.result]
    /\ UNCHANGED << clock, ticks, requests_by_tenant, allowed_calls, recorded >>
    /\ RegFrame

\* app.py 153-230: a later check denies the request; deny() raises
usage_deny ==
    /\ last.kind = "checked"
    /\ last' = [last EXCEPT !.kind = "denied", !.code = "policy_denied"]
    /\ UNCHANGED << clock, ticks, requests_by_tenant, tokens_by_tenant, allowed_calls,
                    recorded >>
    /\ RegFrame

\* a mutation of usage_record: usage is recorded for a denied request as well
usage_record_AfterDenial ==
    /\ last.kind \in { "checked", "denied" }
    /\ GetTenant(registry.tenants, last.tenant_id) # NoTenant
    /\ \E tokens \in UsageTokens :
         /\ tokens_by_tenant' = record_usage(registry.tenants, tokens_by_tenant,
                                             last.tenant_id, tokens, clock).toks
         /\ recorded' = [recorded EXCEPT ![last.tenant_id] = Append(@, << clock, tokens >>)]
    /\ last' = [last EXCEPT !.kind = "recorded"]
    /\ UNCHANGED << clock, ticks, requests_by_tenant, allowed_calls >>
    /\ RegFrame

\* app.py 277-279: registry.record_usage(tenant_id, resp.usage.total_tokens)
usage_record ==
    /\ last.kind = "checked"
    /\ \E tokens \in UsageTokens :
         /\ tokens_by_tenant' = record_usage(registry.tenants, tokens_by_tenant,
                                             last.tenant_id, tokens, clock).toks
         /\ recorded' = [recorded EXCEPT ![last.tenant_id] = Append(@, << clock, tokens >>)]
    /\ last' = [last EXCEPT !.kind = "recorded"]
    /\ UNCHANGED << clock, ticks, requests_by_tenant, allowed_calls >>
    /\ RegFrame

\* app.py 281 or the GatewayError handler: the request is answered
usage_return ==
    /\ last.kind \in { "denied", "recorded" }
    /\ last' = NoLast
    /\ UNCHANGED << clock, ticks, requests_by_tenant, tokens_by_tenant, allowed_calls,
                    recorded >>
    /\ RegFrame

NextUsage ==
    \/ usage_tick
    \/ usage_check
    \/ usage_rpm_remaining
    \/ usage_tpd_remaining
    \/ usage_deny
    \/ usage_record
    \/ usage_return

SpecUsage == InitRegistry /\ [][NextUsage]_vars

\* the tokens of a window, the entry recorded last left out
RECURSIVE AllButLast(_)
AllButLast(dq) ==
    IF Len(dq) <= 1 THEN 0 ELSE dq[1][2] + AllButLast(Tail(dq))

\* the TPD remainder the rate check of the request in flight saw
RemainderSeen ==
    GetTenant(registry.tenants, last.tenant_id).rate_limit_tpd
        - TokensIn(last.seen.toks[last.tenant_id], last.now)

\* C38: for a tenant with a daily limit whose requests are handled one after
\* another, usage is recorded only for a request whose rate check saw a
\* positive TPD remainder, and the entries of the token window without the
\* one recorded last sum to less than rateLimitTPD: the limit is overshot by
\* at most one request's tokens.
C38_TpdOvershootBounded ==
    /\ [][ tokens_by_tenant' # tokens_by_tenant /\ last.kind = "checked" /\ last'.kind = "recorded" =>
              /\ RemainderSeen > 0
              /\ \A t \in TenantIds \ { last.tenant_id } :
                    tokens_by_tenant'[t] = tokens_by_tenant[t] ]_vars
    /\ [][ \A t \in TenantIds :
              Len(tokens_by_tenant'[t]) > Len(tokens_by_tenant[t]) =>
                  last.kind = "checked" /\ last.tenant_id = t /\ RemainderSeen > 0 ]_vars
    /\ []( \A i \in DOMAIN registry.tenants :
              LET tenant == registry.tenants[i]
              IN  tenant.rate_limit_tpd > 0 =>
                    AllButLast(tokens_by_tenant[tenant.tenant_id]) < tenant.rate_limit_tpd )

\* witness of C38: two requests of tenant A recorded 2 tokens each against a
\* daily limit of 3, and the third request is denied by the rate check
C38_Witness ==
    /\ last.kind = "denied" /\ last.code = "rate_limited" /\ last.tenant_id = "tenantA"
    /\ GetTenant(registry.tenants, "tenantA").rate_limit_tpd = TpdLimit
    /\ tokens_by_tenant["tenantA"] = << << 0, 2 >>, << TickStep, 2 >> >>
    /\ Len(allowed_calls["tenantA"]) = 2
    /\ clock = TickStep

\* the request in flight has been denied by the rate check
RateLimited == last.kind = "denied" /\ last.code = "rate_limited"

UsageTenant == GetTenant(registry.tenants, last.tenant_id)

\* the dimension that made check_rate_limit return false, from the windows
\* the call found: the TPD test comes first
DeniedByTpd ==
    /\ UsageTenant.rate_limit_tpd > 0
    /\ TokensIn(last.seen.toks[last.tenant_id], last.now) >= UsageTenant.rate_limit_tpd
DeniedByRpm ==
    /\ ~DeniedByTpd
    /\ UsageTenant.rate_limit_rpm > 0
    /\ CountIn(last.seen.reqs[last.tenant_id], last.now) >= UsageTenant.rate_limit_rpm

\* C39: in every rate_limited denial the details hold rpm_remaining = 0 or
\* tpd_remaining = 0, and the zero is the figure of the dimension that made
\* check_rate_limit return false.
C39_DetailsNameExhaustedDimension ==
    (RateLimited /\ UsageTenant # NoTenant /\ UsageTenant.enabled) =>
        /\ DeniedByTpd \/ DeniedByRpm
        /\ DeniedByTpd => last.details.tpd_remaining = IntOrNone(0)
        /\ DeniedByRpm => last.details.rpm_remaining = IntOrNone(0)

\* the same for the denials during which the clock stood still
C39_AtOneInstant ==
    (RateLimited /\ UsageTenant # NoTenant /\ UsageTenant.enabled /\ clock = last.now) =>
        /\ DeniedByTpd \/ DeniedByRpm
        /\ DeniedByTpd => last.details.tpd_remaining = IntOrNone(0)
        /\ DeniedByRpm => last.details.rpm_remaining = IntOrNone(0)

\* both dimensions are reached as the cause of a denial
C39_BothDimensionsReached ==
    /\ RateLimited /\ UsageTenant # NoTenant /\ UsageTenant.enabled /\ clock = last.now
    /\ DeniedByTpd
    /\ last.details.rpm_remaining = IntOrNone(0)

(***************************************************************************)
(* SpecIsolation: one caller using a TenantRegistry that holds two enabled *)
(* tenants with limits, A and B, and the disabled tenant D: the four rate  *)
(* operations for each tenant and authenticate with each key, one call at  *)
(* a time, while time passes.                                              *)
(***************************************************************************)
IsolationManifests ==
    { [kind |-> "object",
       tenants |-> << [EntryA EXCEPT !.rate_limit_rpm = 1, !.rate_limit_tpd = TpdLimit],
                      [tenant_id |-> "tenantB",
                       api_key_hashes |-> << Written("keyB", "lower64") >>,
                       rate_limit_rpm |-> rpm, rate_limit_tpd |-> tpd, enabled |-> TRUE],
                      EntryD >>] :
          rpm \in 1 .. 2, tpd \in { 0, TpdLimit } }

InitIsolation ==
    /\ phase = "serving"
    /\ policyFile = [kind |-> "object", data |-> StrictPolicy]
    /\ tenantsFile \in IsolationManifests
    /\ legacy_api_key = ""
    /\ policy = Policy_load([kind |-> "object", data |-> StrictPolicy]).policy
    /\ registry = [loaded |-> TRUE, tenants |-> TenantRegistry_load(tenantsFile).tenants]
    /\ clock = 0
    /\ ticks = 0
    /\ requests_by_tenant = EmptyWindows
    /\ tokens_by_tenant = EmptyWindows
    /\ allowed_calls = EmptyWindows
    /\ last = NoLast
    /\ ConcIdle
    /\ AuditIdle
    /\ recorded = EmptyWindows

iso_check_rate_limit ==
    /\ last = NoLast
    /\ AllowedSoFar < MaxAllowed
    /\ \E tid \in TenantIds :
         LET r == check_rate_limit(registry.tenants, requests_by_tenant, tokens_by_tenant,
                                   tid, clock)
         IN  /\ requests_by_tenant' = r.reqs
             /\ tokens_by_tenant' = r.toks
             /\ allowed_calls' = IF r.ok THEN [allowed_calls EXCEPT ![tid] = Append(@, clock)]
                                 ELSE allowed_calls
             /\ last' = Call("check_rate_limit", tid, 0, [ok |-> r.ok])
    /\ UNCHANGED << clock, ticks, recorded >>
    /\ RegFrame

iso_record_usage ==
    /\ last = NoLast
    /\ RecordedSoFar < MaxRecorded
    /\ \E tid \in TenantIds : \E tokens \in { 1, TpdLimit } :
         LET r      == record_usage(registry.tenants, tokens_by_tenant, tid, tokens, clock)
             tenant == GetTenant(registry.tenants, tid)
         IN  /\ tokens_by_tenant' = r.toks
             /\ recorded' = IF tenant.enabled
                            THEN [recorded EXCEPT ![tid] = Append(@, << clock, tokens >>)]
                            ELSE recorded
             /\ last' = Call("record_usage", tid, tokens, [raised |-> r.raised])
    /\ UNCHANGED << clock, ticks, requests_by_tenant, allowed_calls >>
    /\ RegFrame

iso_rpm_remaining ==
    /\ last = NoLast
    /\ \E tid \in TenantIds :
         LET r == rpm_remaining(registry.tenants, requests_by_tenant, tid, clock)
         IN  /\ requests_by_tenant' = r.reqs
             /\ last' = Call("rpm_remaining", tid, 0, r.result)
    /\ UNCHANGED << clock, ticks, tokens_by_tenant, allowed_calls, recorded >>
    /\ RegFrame

iso_tpd_remaining ==
    /\ last = NoLast
    /\ \E tid \in TenantIds :
         LET r == tpd_remaining(registry.tenants, tokens_by_tenant, tid, clock)
         IN  /\ tokens_by_tenant' = r.toks
             /\ last' = Call("tpd_remaining", tid, 0, r.result)
    /\ UNCHANGED << clock, ticks, requests_by_tenant, allowed_calls, recorded >>
    /\ RegFrame

\* authenticate reads self._tenants only
iso_authenticate ==
    /\ last = NoLast
    /\ \E token \in { "keyA", "keyB", "keyD", "unknown" } :
         LET tenant == authenticate(registry.tenants, token)
         IN  last' = Call("authenticate",
                          IF tenant = NoTenant THEN "" ELSE tenant.tenant_id, 0,
                          [found |-> tenant # NoTenant])
    /\ UNCHANGED << clock, ticks, requests_by_tenant, tokens_by_tenant, allowed_calls,
                    recorded >>
    /\ RegFrame

NextIsolation ==
    \/ RegTick
    \/ RegReturn
    \/ iso_check_rate_limit
    \/ iso_record_usage
    \/ iso_rpm_remaining
    \/ iso_tpd_remaining
    \/ iso_authenticate

SpecIsolation == InitIsolation /\ [][NextIsolation]_vars

\* the tenants other than the one the last call was made for
OtherTenants == TenantIds \ { last.tenant_id }

\* the quota of tenant t is used up at the time of the last call
Exhausted(t) ==
    LET tenant == GetTenant(registry.tenants, t)
    IN  /\ CountIn(allowed_calls[t], last.now) >= tenant.rate_limit_rpm
        /\ TokensIn(recorded[t], last.now) >= tenant.rate_limit_tpd

\* C40: a rate operation called for one tenant leaves the RPM window and the
\* token window of every other tenant as they were; authenticate leaves all
\* windows as they were; and a check_rate_limit call of an enabled tenant is
\* refused only when that tenant's own allowed calls fill its RPM window or
\* its own recorded tokens reach its TPD limit, whatever the other tenants
\* have used.
C40_TenantsIsolated ==
    /\ (last.kind = "call" /\ ~Called("authenticate")) =>
          \A t \in OtherTenants :
              /\ requests_by_tenant[t] = last.before.reqs[t]
              /\ tokens_by_tenant[t] = last.before.toks[t]
    /\ Called("authenticate") =>
          /\ requests_by_tenant = last.before.reqs
          /\ tokens_by_tenant = last.before.toks
    /\ (Called("check_rate_limit") /\ CalleeEnabled) =>
          (~last.result.ok <=> (RpmFull \/ TpdExhausted))

\* witness of C40: tenant A has used up both its quotas, and a call of tenant
\* B, made after one of A's token entries and one of B's had expired, was
\* allowed and left A's windows alone
C40_Witness ==
    /\ Called("check_rate_limit") /\ last.tenant_id = "tenantB" /\ last.result.ok
    /\ Callee.rate_limit_tpd > 0
    /\ Exhausted("tenantA")
    /\ Len(tokens_by_tenant["tenantB"]) < Len(last.before.toks["tenantB"])
    /\ tokens_by_tenant["tenantA"] = last.before.toks["tenantA"]
    /\ tokens_by_tenant["tenantA"] # << >>

====
